---- MODULE Spec2Model ----
(***************************************************************************)
(* A model of the stonks dashboard (kshitij-garg/stonks).                  *)
(*                                                                         *)
(* The React front end (src/src, src/unnamed) is modelled from its code.   *)
(* The Flask back end (backend/services/scoring.py, valuation.py, ...) is  *)
(* not part of the source tree; the stock evaluation pipeline it holds is  *)
(* modelled from the specification and every such definition says so.      *)
(***************************************************************************)
EXTENDS Integers, Sequences, FiniteSets, TLC

VARIABLES
    compareSymbols,   \* App: useState([]) list of symbols under comparison
    lastCall,         \* the last App compare handler that ran, with its argument
    rows,             \* stock rows the API delivered to the components
    display,          \* per component, what it rendered for the DCF of each row
    tier,             \* configuration: composite below which a SELL is a STRONG SELL
    scoreInput,       \* sub-scores and margin of safety of the stock being evaluated
    scores,           \* <<ScoreBreakdown>> once the Scoring Engine has run
    recommendation,   \* <<Recommendation>> once the Recommendation Mapper has run
    series,           \* the PriceSeries handed to evaluate
    evaluation,       \* <<>> or <<what evaluate returned or failed with>>
    feed,             \* per batch symbol, the series and pace of its evaluation
    status,           \* per batch symbol: pending, running, ok, failed, skipped
    errorCount,       \* per batch symbol, the errors recorded for it
    errorKind,        \* per batch symbol, the kind of its last error
    progress,         \* the batch's progress: status, current, total
    polled,           \* ProgressBar: the progress state (null until a poll answers)
    interval,         \* ProgressBar: intervalRef.current is set
    timeframe,        \* App: useState('weekly')
    activeTab,        \* App: useState('dashboard')
    cacheValid,       \* per timeframe, the cache holds its computed results
    computing,        \* per timeframe, the computations in flight
    waiting,          \* per timeframe, the requests waiting for the computation
    demoMode,         \* stockApi: the DEMO_MODE constant, fixed when the module loads
    backendHit,       \* a request has been sent to the back end
    apiReturn,        \* the last call of the API client and how it ended
    query,            \* SearchBar: useState('') the text of the search input
    results,          \* SearchBar: the results held, with the request they came from
    isOpen,           \* SearchBar: the dropdown is open
    isLoading,        \* SearchBar: the spinner is shown
    timers,           \* SearchBar: the pending setTimeout timers, each with its age
    inFlight,         \* SearchBar: the search requests not yet answered
    nextId,           \* the number the next search request gets
    applied,          \* the requests whose responses were put into results
    stable,           \* milliseconds for which query has kept its value
    issued,           \* <<>> or the last request issued, with query and stable then
    burst,            \* a change of the query has cancelled a timer since the last one fired
    searchStep,       \* the last step of SearchBar
    holdings,         \* the symbols held in the portfolio the back end stores
    portfolioData,    \* App: <<>> or <<data of the ['portfolio'] query>>
    analytics,        \* Portfolio: <<>> or <<data of the ['portfolio-analytics'] query>>
    refetching,       \* a fetch of the ['portfolio'] query is under way
    lastMutation,     \* the last mutation of the portfolio that succeeded
    table,            \* the component that renders the DataTable
    tableData,        \* DataTable: the data prop
    sortConfig,       \* DataTable: useState({ key: null, direction: 'desc' })
    filters,          \* DataTable: useState({}) as its entries in insertion order
    searchTerm,       \* DataTable: useState('')
    showFilters,      \* DataTable: useState(false)
    currentPage,      \* DataTable: useState(1)
    stocks,           \* StockScreener: the stocks prop (the all-stocks query's data)
    stocksDefined,    \* StockScreener: FALSE while the stocks prop is undefined
    screenerFilters,  \* StockScreener: useState({sector: 'all', ...})
    formOwner,        \* the component whose form is mounted: Alerts, Portfolio or Watchlist
    alertFormData,    \* Alerts: useState({symbol: '', targetPrice: '', condition: 'above', notes: ''})
    showCreateForm,   \* Alerts: useState(false)
    holdingFormData,  \* Portfolio: useState({symbol: '', quantity: '', price: ''})
    showHoldingForm,  \* Portfolio: useState(false) showAddForm
    addSymbol,        \* Watchlist: useState('')
    showWatchForm,    \* Watchlist: useState(false) showAddForm
    formStep          \* the last form event, and for a submit the callback's call

compareVars == <<compareSymbols, lastCall>>

renderVars == <<rows, display>>

scoreVars == <<tier, scoreInput, scores, recommendation>>

evalVars == <<series, evaluation>>

batchVars == <<feed, status, errorCount, errorKind, progress, polled, interval>>

cacheVars == <<timeframe, activeTab, cacheValid, computing, waiting>>

apiVars == <<demoMode, backendHit, apiReturn>>

\* the state of the API client and of the other components
searchVars == <<query, results, isOpen, isLoading, timers, inFlight, nextId,
                applied, stable, issued, burst, searchStep>>

portfolioVars == <<holdings, portfolioData, analytics, refetching, lastMutation>>

tableVars == <<table, tableData, sortConfig, filters, searchTerm, showFilters,
               currentPage>>

screenerVars == <<stocks, stocksDefined, screenerFilters>>

formVars == <<formOwner, alertFormData, showCreateForm, holdingFormData,
              showHoldingForm, addSymbol, showWatchForm, formStep>>

uiVars == <<apiVars, searchVars, portfolioVars, tableVars, screenerVars, formVars>>

\* the state of the comparison, the valuation display and the pipeline
coreVars == <<compareVars, renderVars, scoreVars, evalVars, batchVars, cacheVars>>

vars == <<compareSymbols, lastCall, rows, display,
          tier, scoreInput, scores, recommendation,
          series, evaluation,
          feed, status, errorCount, errorKind, progress, polled, interval,
          timeframe, activeTab, cacheValid, computing, waiting, uiVars>>

Range(s) == {s[i] : i \in DOMAIN s}

Reverse(seq) == [i \in DOMAIN seq |-> seq[Len(seq) + 1 - i]]

NoDup(s) == \A i, j \in DOMAIN s : i # j => s[i] # s[j]

(***************************************************************************)
(* Stock comparison: App.handleAddCompare / App.handleRemoveCompare and    *)
(* Compare.handleAdd.                                                      *)
(***************************************************************************)

\* Number of distinct ticker symbols a user may type.
NumSymbols == 6

Symbols == 1..NumSymbols

\* App.jsx:152  compareSymbols.length < 5
MaxCompare == 5

\* What the user typed into the Compare input: the letters of ticker sym
\* (0: nothing but white space), in lower or upper case, with or without
\* surrounding blanks.
RawTexts == [sym : 0..NumSymbols, lower : BOOLEAN, padded : BOOLEAN]

\* searchSymbol.trim(): the text without its surrounding blanks
Trim(raw) == [raw EXCEPT !.padded = FALSE]

\* .toUpperCase()
ToUpperCase(raw) == [raw EXCEPT !.lower = FALSE]

\* a trimmed text is truthy iff it is not the empty string
Truthy(raw) == raw.sym # 0

\* the ticker an upper-case, trimmed text spells
SymbolOf(raw) == raw.sym

\* compareSymbols.filter(s => s !== symbol)
RECURSIVE Filter(_, _)
Filter(s, symbol) ==
    IF s = <<>> THEN <<>>
    ELSE IF Head(s) # symbol THEN <<Head(s)>> \o Filter(Tail(s), symbol)
         ELSE Filter(Tail(s), symbol)

\* a plausible slip: the length test is <= 5 instead of < 5
AddCompareOffByOne(symbol) ==
    /\ compareSymbols' =
         IF symbol \notin Range(compareSymbols) /\ Len(compareSymbols) <= MaxCompare
         THEN Append(compareSymbols, symbol)
         ELSE compareSymbols
    /\ lastCall' = [op |-> "add", symbol |-> symbol]
    /\ UNCHANGED <<renderVars, scoreVars, evalVars, batchVars, cacheVars, uiVars>>

\* App.handleAddCompare(symbol)
handleAddCompare(symbol) ==
    /\ compareSymbols' =
         IF symbol \notin Range(compareSymbols) /\ Len(compareSymbols) < MaxCompare
         THEN Append(compareSymbols, symbol)
         ELSE compareSymbols
    /\ lastCall' = [op |-> "add", symbol |-> symbol]
    /\ UNCHANGED <<renderVars, scoreVars, evalVars, batchVars, cacheVars, uiVars>>

\* App.handleRemoveCompare(symbol)
handleRemoveCompare(symbol) ==
    /\ compareSymbols' = Filter(compareSymbols, symbol)
    /\ lastCall' = [op |-> "remove", symbol |-> symbol]
    /\ UNCHANGED <<renderVars, scoreVars, evalVars, batchVars, cacheVars, uiVars>>

\* Compare.handleAdd: the Add button or the Enter key. The button is disabled
\* when the fetched comparison holds 5 stocks, the Enter key never is.
CompareAdd ==
    \E raw \in RawTexts :
        /\ Truthy(Trim(raw))
        /\ handleAddCompare(SymbolOf(ToUpperCase(Trim(raw))))

\* Compare: the X button of a listed stock calls onRemove(stock.symbol)
CompareRemove ==
    \E symbol \in Symbols : handleRemoveCompare(symbol)

InitCompare ==
    /\ compareSymbols = <<>>
    /\ lastCall = [op |-> "none", symbol |-> 0]

(***************************************************************************)
(* What the components show for a stock's DCF valuation.                   *)
(***************************************************************************)

\* Rows the API delivers before the list is rendered.
MaxRows == 2

\* Largest intrinsic value and largest market price of a delivered row.
MaxIntrinsic == 3

MaxPrice == 2

\* The dcf object of a row whose valuation could not be computed: whatever
\* marks it, the fields the components read are undefined.
Unavailable == [computed |-> FALSE, intrinsic_value |-> 0, tenths |-> 0]

\* DCFResult.margin_of_safety = (intrinsic_value - current_price) /
\* current_price * 100, kept in tenths of a percent.
MarginTenths(intrinsic, price) == ((intrinsic - price) * 1000) \div price

ComputedDcf(intrinsic, price) ==
    [computed |-> TRUE, intrinsic_value |-> intrinsic,
     tenths |-> MarginTenths(intrinsic, price)]

DcfValues ==
    {Unavailable} \cup
    {ComputedDcf(i, p) : i \in 0..MaxIntrinsic, p \in 1..MaxPrice}

Abs(n) == IF n < 0 THEN -n ELSE n

\* Number.prototype.toFixed(0) of t/10: the sign and the nearest integer,
\* a tie going away from zero ("-0" keeps its sign).
ToFixed0(t) == [neg |-> t < 0, int |-> (Abs(t) + 5) \div 10]

\* what a component puts on the screen for one row's DCF
Hidden == [shown |-> FALSE, cls |-> "", plus |-> FALSE, num |-> <<>>, text |-> ""]

Shown(cls, plus, num, text) ==
    [shown |-> TRUE, cls |-> cls, plus |-> plus, num |-> num, text |-> text]

\* TopPerformers.jsx:119-127  {stock.dcf?.intrinsic_value > 0 && (...)}
TopPerformersDcf(dcf) ==
    IF dcf.computed /\ dcf.intrinsic_value > 0
    THEN Shown(IF dcf.tenths > 0 THEN "positive" ELSE "negative",
               dcf.tenths > 0, <<ToFixed0(dcf.tenths)>>, "%")
    ELSE Hidden

\* Recommendations.jsx:89-99 (table) and 230-234 (cards):
\* undefined > 0 is false and undefined?.toFixed(0) renders nothing
RecommendationsDcf(dcf) ==
    Shown(IF dcf.computed /\ dcf.tenths > 0 THEN "positive" ELSE "negative",
          dcf.computed /\ dcf.tenths > 0,
          IF dcf.computed THEN <<ToFixed0(dcf.tenths)>> ELSE <<>>, "%")

\* Compare (unnamed/part_003:93-94, 114, 176): typeof v === 'number' ? ... : '-'
CompareDcf(dcf) ==
    IF dcf.computed
    THEN Shown(IF dcf.tenths >= 0 THEN "positive" ELSE "negative",
               dcf.tenths >= 0, <<ToFixed0(dcf.tenths)>>, "%")
    ELSE Shown("", FALSE, <<>>, "-")

\* Compare (unnamed/part_004:23, 91-93):
\* `${v >= 0 ? '+' : ''}${v?.toFixed(0) || 0}%`; a string of digits is truthy
CompareLegacyDcf(dcf) ==
    IF dcf.computed
    THEN Shown(IF dcf.tenths >= 0 THEN "positive" ELSE "negative",
               dcf.tenths >= 0, <<ToFixed0(dcf.tenths)>>, "%")
    ELSE Shown("", FALSE, <<[neg |-> FALSE, int |-> 0]>>, "%")

Components == {"TopPerformers", "Recommendations", "Compare", "CompareLegacy"}

RenderDcf(c, dcf) ==
    CASE c = "TopPerformers" -> TopPerformersDcf(dcf)
      [] c = "Recommendations" -> RecommendationsDcf(dcf)
      [] c = "Compare" -> CompareDcf(dcf)
      [] c = "CompareLegacy" -> CompareLegacyDcf(dcf)

\* a query resolves: one more stock row reaches the components
ApiDeliver ==
    /\ Len(rows) < MaxRows
    /\ \E dcf \in DcfValues : rows' = Append(rows, dcf)
    /\ UNCHANGED <<display, compareVars, scoreVars, evalVars, batchVars, cacheVars, uiVars>>

\* a component renders the rows it holds (stocks.map(...))
Render ==
    /\ \E c \in Components :
         display' = [display EXCEPT ![c] = [i \in DOMAIN rows |-> RenderDcf(c, rows[i])]]
    /\ UNCHANGED <<rows, compareVars, scoreVars, evalVars, batchVars, cacheVars, uiVars>>

\* the data is refetched: the rows are replaced from scratch
Refetch ==
    /\ rows # <<>>
    /\ rows' = <<>>
    /\ display' = [c \in Components |-> <<>>]
    /\ UNCHANGED <<compareVars, scoreVars, evalVars, batchVars, cacheVars, uiVars>>

InitRender ==
    /\ rows = <<>>
    /\ display = [c \in Components |-> <<>>]

(***************************************************************************)
(* Scoring Engine and Recommendation Mapper (specification sections 4.2    *)
(* and 4.4; the code is backend/services/scoring.py, outside the tree).    *)
(* Scores are kept in hundredths of a point, weights in percent.           *)
(***************************************************************************)

\* Sub-scores are drawn from NumLevels + 1 evenly spaced levels of 0..100.
NumLevels == 1

\* Margins of safety are drawn from -MaxMargin..MaxMargin percent.
MaxMargin == 1

SubScoreNames == {"momentum", "technical", "trend", "volume", "valuation"}

Levels == {(100 * k) \div NumLevels : k \in 0..NumLevels}

\* the marker of a sub-score whose indicator is unavailable
NoIndicator == -1

\* an unavailable indicator is score-neutral: the midpoint
NeutralScore == 50

\* the volume weight doubled: weights that sum to 1.1
WeightsOverweight ==
    [momentum |-> 25, technical |-> 25, trend |-> 20, volume |-> 20, valuation |-> 20]

\* documented default weights, in percent
Weights ==
    [momentum |-> 25, technical |-> 25, trend |-> 20, volume |-> 10, valuation |-> 20]

RECURSIVE SumOver(_, _)
SumOver(S, f) ==
    IF S = {} THEN 0
    ELSE LET x == CHOOSE y \in S : TRUE IN f[x] + SumOver(S \ {x}, f)

SubScore(raw) == IF raw = NoIndicator THEN NeutralScore ELSE raw

\* ScoreBreakdown: the sub-scores and their fixed-weight sum (hundredths)
ScoreBreakdown(raw) ==
    LET sub == [n \in SubScoreNames |-> SubScore(raw[n])]
    IN [sub |-> sub,
        composite |-> SumOver(SubScoreNames, [n \in SubScoreNames |-> Weights[n] * sub[n]])]

\* recommendation thresholds on the composite score (points)
StrongBuyMin == 70

BuyMin == 55

HoldMin == 40

\* tier boundaries tried for STRONG SELL (the specification names none)
Tiers == {0, 25, 40}

\* the marker of a margin of safety that could not be computed
NoMargin == -1000

MarginNonNegative(m) == m # NoMargin /\ m >= 0

MarginNegative(m) == m # NoMargin /\ m < 0

\* the HOLD band with its lower end left out: composite > 40 instead of >= 40
AppliesOpenHold(action, c, m, t) ==
    CASE action = "STRONG BUY" -> c >= StrongBuyMin * 100 /\ MarginNonNegative(m)
      [] action = "BUY" ->
            c >= BuyMin * 100 /\ ~(c >= StrongBuyMin * 100 /\ MarginNonNegative(m))
      [] action = "HOLD" -> c > HoldMin * 100 /\ c < BuyMin * 100
      [] action = "STRONG SELL" -> c < HoldMin * 100 /\ MarginNegative(m) /\ c < t * 100
      [] action = "SELL" ->
            c < HoldMin * 100 /\ ~(MarginNegative(m) /\ c < t * 100)

\* a margin of safety that lifts any stock to BUY: the margin overrides the score
AppliesMarginFirst(action, c, m, t) ==
    CASE action = "STRONG BUY" -> c >= StrongBuyMin * 100 /\ MarginNonNegative(m)
      [] action = "BUY" ->
            c >= BuyMin * 100 /\ ~(c >= StrongBuyMin * 100 /\ MarginNonNegative(m))
      [] action = "HOLD" -> c >= HoldMin * 100 /\ c < BuyMin * 100
      [] action = "STRONG SELL" -> c < HoldMin * 100 /\ MarginNegative(m) /\ c >= t * 100
      [] action = "SELL" ->
            c < HoldMin * 100 /\ ~(MarginNegative(m) /\ c >= t * 100)

\* the rule of each action: composite c (hundredths), margin m, tier t
Applies(action, c, m, t) ==
    CASE action = "STRONG BUY" -> c >= StrongBuyMin * 100 /\ MarginNonNegative(m)
      [] action = "BUY" ->
            c >= BuyMin * 100 /\ ~(c >= StrongBuyMin * 100 /\ MarginNonNegative(m))
      [] action = "HOLD" -> c >= HoldMin * 100 /\ c < BuyMin * 100
      [] action = "STRONG SELL" -> c < HoldMin * 100 /\ MarginNegative(m) /\ c < t * 100
      [] action = "SELL" ->
            c < HoldMin * 100 /\ ~(MarginNegative(m) /\ c < t * 100)

ActionSet == {"STRONG SELL", "SELL", "HOLD", "BUY", "STRONG BUY"}

Matching(c, m, t) == {a \in ActionSet : Applies(a, c, m, t)}

\* the place of an action in the order from STRONG SELL up to STRONG BUY
Rank(action) ==
    CASE action = "STRONG SELL" -> 1
      [] action = "SELL" -> 2
      [] action = "HOLD" -> 3
      [] action = "BUY" -> 4
      [] action = "STRONG BUY" -> 5

ScoreInputs ==
    [sub : [SubScoreNames -> Levels \cup {NoIndicator}],
     margin : (-MaxMargin..MaxMargin) \cup {NoMargin}]

\* Scoring Engine: indicators and fundamentals to a ScoreBreakdown
ScoreStock ==
    /\ scores = <<>>
    /\ scores' = <<ScoreBreakdown(scoreInput.sub)>>
    /\ UNCHANGED <<tier, scoreInput, recommendation, compareVars, renderVars, evalVars, batchVars, cacheVars, uiVars>>

\* Recommendation Mapper: any action whose rule applies; none when no rule does
RecommendStock ==
    /\ scores # <<>>
    /\ recommendation = <<>>
    /\ LET match == Matching(scores[1].composite, scoreInput.margin, tier)
       IN IF match = {}
          THEN recommendation' = <<"">>
          ELSE \E a \in match : recommendation' = <<a>>
    /\ UNCHANGED <<tier, scoreInput, scores, compareVars, renderVars, evalVars, batchVars, cacheVars, uiVars>>

InitScore ==
    /\ tier \in Tiers
    /\ scoreInput \in ScoreInputs
    /\ scores = <<>>
    /\ recommendation = <<>>

IdleScore ==
    /\ tier = 0
    /\ scoreInput = [sub |-> [n \in SubScoreNames |-> NoIndicator], margin |-> NoMargin]
    /\ scores = <<>>
    /\ recommendation = <<>>

(***************************************************************************)
(* evaluate(symbol, priceSeries, ...) and its input check (specification   *)
(* sections 3, 4.1, 6 and 7; the code is outside the tree).                *)
(***************************************************************************)

\* A PriceSeries holds at most MaxBars bars, dated 1..MaxBars.
MaxBars == 3

Closes == {-1, 0, 1}

Bars == [date : 1..MaxBars, close : Closes]

SeriesOfLen(n) == [1..n -> Bars]

SeriesSet == UNION {SeriesOfLen(n) : n \in 0..MaxBars}

\* the input check with <= for <: a repeated date passes
RECURSIVE ValidateSeriesLax(_)
ValidateSeriesLax(ps) ==
    IF Len(ps) = 0 THEN TRUE
    ELSE IF ps[Len(ps)].close <= 0 THEN FALSE
    ELSE IF Len(ps) > 1 /\ ps[Len(ps) - 1].date > ps[Len(ps)].date THEN FALSE
    ELSE ValidateSeriesLax(SubSeq(ps, 1, Len(ps) - 1))

\* the input check: every bar's price positive, every date after the one before
RECURSIVE ValidateSeries(_)
ValidateSeries(ps) ==
    IF Len(ps) = 0 THEN TRUE
    ELSE IF ps[Len(ps)].close <= 0 THEN FALSE
    ELSE IF Len(ps) > 1 /\ ps[Len(ps) - 1].date >= ps[Len(ps)].date THEN FALSE
    ELSE ValidateSeries(SubSeq(ps, 1, Len(ps) - 1))

\* evaluate: a DataQualityError for a series that fails the check, else the
\* result {indicators, scores, dcf, recommendation}, here the bars it read
EvaluateSeries(ps) ==
    IF ValidateSeries(ps)
    THEN [kind |-> "result", bars |-> Len(ps)]
    ELSE [kind |-> "DataQualityError", bars |-> 0]

Evaluate ==
    /\ evaluation = <<>>
    /\ evaluation' = <<EvaluateSeries(series)>>
    /\ UNCHANGED <<series, compareVars, renderVars, scoreVars, batchVars, cacheVars, uiVars>>

InitEval ==
    /\ series \in SeriesSet
    /\ evaluation = <<>>

IdleEval ==
    /\ series = <<>>
    /\ evaluation = <<>>

(***************************************************************************)
(* evaluateAll(symbols[], ...): the batch, its progress, and the           *)
(* ProgressBar that polls it (specification sections 5 to 7; ProgressBar   *)
(* is in src/src/components/Commodities.jsx).                              *)
(***************************************************************************)

\* Symbols of one batch.
NumBatch == 3

BatchSymbols == 1..NumBatch

Bar(d, c) == [date |-> d, close |-> c]

\* series the data layer hands to a batch: rising prices, a decreasing date,
\* a repeated date, a price of zero
SampleSeries ==
    {<<Bar(1, 1), Bar(2, 1)>>, <<Bar(2, 1), Bar(1, 1)>>,
     <<Bar(1, 1), Bar(1, 1)>>, <<Bar(1, 1), Bar(2, 0)>>}

Feeds == [series : SampleSeries, slow : BOOLEAN]

Terminal(st) == st \in {"ok", "failed", "skipped"}

\* a failure that ends the batch: what is still pending is never evaluated
AbortOnFailure(st, sym) ==
    [x \in DOMAIN st |->
        IF x = sym THEN "failed" ELSE IF st[x] = "pending" THEN "skipped" ELSE st[x]]

\* the statuses after sym failed: the others are untouched
AfterFailure(st, sym) == [st EXCEPT ![sym] = "failed"]

\* no deadline: a slow evaluation is never cancelled
TimeoutNever(sym) == FALSE

\* the per-symbol deadline passes for an evaluation that is still running
TimeoutDue(sym) == status[sym] = "running" /\ feed[sym].slow

Count(st) == Cardinality({x \in DOMAIN st : Terminal(st[x])})

\* fan-in: progress counts the settled symbols and ends when all are
Progressed(st) ==
    [progress EXCEPT
        !.current = Count(st),
        !.status = IF Count(st) = NumBatch THEN "done" ELSE @]

Fail(sym, kind) ==
    /\ status' = AfterFailure(status, sym)
    /\ errorCount' = [errorCount EXCEPT ![sym] = @ + 1]
    /\ errorKind' = [errorKind EXCEPT ![sym] = kind]
    /\ progress' = Progressed(status')

\* a worker takes a pending symbol; its series is checked first
StartSymbol ==
    \E sym \in BatchSymbols :
        /\ progress.status = "loading"
        /\ status[sym] = "pending"
        /\ IF EvaluateSeries(feed[sym].series).kind = "DataQualityError"
           THEN Fail(sym, "DataQualityError")
           ELSE /\ status' = [status EXCEPT ![sym] = "running"]
                /\ UNCHANGED <<errorCount, errorKind, progress>>
        /\ UNCHANGED <<feed, polled, interval,
                       compareVars, renderVars, scoreVars, evalVars, cacheVars, uiVars>>

\* an evaluation that is not slow returns its result
FinishSymbol ==
    \E sym \in BatchSymbols :
        /\ status[sym] = "running"
        /\ ~feed[sym].slow
        /\ status' = [status EXCEPT ![sym] = "ok"]
        /\ progress' = Progressed(status')
        /\ UNCHANGED <<feed, errorCount, errorKind, polled, interval,
                       compareVars, renderVars, scoreVars, evalVars, cacheVars, uiVars>>

\* cooperative cancellation: the deadline of a running symbol passes
TimeoutSymbol ==
    \E sym \in BatchSymbols :
        /\ TimeoutDue(sym)
        /\ Fail(sym, "Timeout")
        /\ UNCHANGED <<feed, polled, interval,
                       compareVars, renderVars, scoreVars, evalVars, cacheVars, uiVars>>

\* the batch starts: progress goes from idle to loading
StartBatch ==
    /\ progress.status = "idle"
    /\ progress' = [status |-> "loading", current |-> 0, total |-> NumBatch]
    /\ UNCHANGED <<feed, status, errorCount, errorKind, polled, interval,
                   compareVars, renderVars, scoreVars, evalVars, cacheVars, uiVars>>

\* ProgressBar.pollProgress (Commodities.jsx:110-125): fetchProgress answers
\* with the progress, or null when the response is not OK
PollProgress ==
    /\ interval
    /\ \E ok \in BOOLEAN :
         LET data == IF ok THEN <<progress>> ELSE <<>>
         IN /\ polled' = IF data # <<>> THEN data ELSE polled
            /\ interval' = IF data # <<>> /\ data[1].status \in {"done", "error"}
                           THEN FALSE ELSE interval
    /\ UNCHANGED <<feed, status, errorCount, errorKind, progress,
                   compareVars, renderVars, scoreVars, evalVars, cacheVars, uiVars>>

ServerStep ==
    \/ StartBatch
    \/ StartSymbol
    \/ FinishSymbol
    \/ TimeoutSymbol

InitBatch ==
    /\ feed \in [BatchSymbols -> Feeds]
    /\ status = [x \in BatchSymbols |-> "pending"]
    /\ errorCount = [x \in BatchSymbols |-> 0]
    /\ errorKind = [x \in BatchSymbols |-> "none"]
    /\ progress = [status |-> "idle", current |-> 0, total |-> NumBatch]
    /\ polled = <<>>
    /\ interval = TRUE

(***************************************************************************)
(* The queries of App that depend on the timeframe, and the cache of       *)
(* computed results they reach (specification section 5; the cache is in   *)
(* the back end, its status per timeframe is shown by ProgressBar).        *)
(***************************************************************************)

\* Requests that may wait for one computation.
MaxWaiting == 2

\* Header (DataTable.jsx:473-475): the timeframe selector's options
Timeframes == {"daily", "weekly", "monthly"}

\* Header (DataTable.jsx:440-444): the main tabs; "tools" is any other tab
Tabs == {"dashboard", "recommendations", "screener", "tools"}

Endpoints == {"top-performers", "all-stocks", "recommendations"}

\* App.jsx:48-80: the enabled option of each query
QueryEnabled(ep, tab) ==
    CASE ep = "top-performers" -> TRUE
      [] ep = "all-stocks" -> tab = "screener"
      [] ep = "recommendations" -> tab = "recommendations"

\* a computation starts whenever the results are not cached, in flight or not
StartsComputationUnguarded(tf) == ~cacheValid[tf]

\* a request starts the computation of its key only when the results are not
\* cached and no computation of that key is in flight
StartsComputation(tf) == ~cacheValid[tf] /\ computing[tf] = 0

\* the cache serves a request for key tf: a hit answers at once, a miss waits
\* for the computation in flight or starts one
GetOrCompute(tf) ==
    IF cacheValid[tf]
    THEN UNCHANGED <<cacheValid, computing, waiting>>
    ELSE /\ waiting[tf] < MaxWaiting
         /\ computing[tf] <= 1
         /\ computing' = IF StartsComputation(tf)
                         THEN [computing EXCEPT ![tf] = @ + 1] ELSE computing
         /\ waiting' = [waiting EXCEPT ![tf] = @ + 1]
         /\ UNCHANGED cacheValid

\* App.jsx:48-80: an enabled query fetches its endpoint for the timeframe
\* (on mount, on a new key, on refetch or after invalidateQueries)
FetchQuery ==
    /\ \E ep \in Endpoints :
         /\ QueryEnabled(ep, activeTab)
         /\ GetOrCompute(timeframe)
    /\ UNCHANGED <<timeframe, activeTab,
                   compareVars, renderVars, scoreVars, evalVars, batchVars, uiVars>>

\* stockApi.triggerPrefetch: POST /prefetch asks for one timeframe's results
\* without waiting for them
TriggerPrefetch ==
    /\ \E tf \in Timeframes :
         /\ StartsComputation(tf)
         /\ computing[tf] <= 1
         /\ computing' = [computing EXCEPT ![tf] = @ + 1]
    /\ UNCHANGED <<timeframe, activeTab, cacheValid, waiting,
                   compareVars, renderVars, scoreVars, evalVars, batchVars, uiVars>>

\* a computation ends: its results are cached and the waiting requests answered
ComputeDone ==
    /\ \E tf \in Timeframes :
         /\ computing[tf] > 0
         /\ computing' = [computing EXCEPT ![tf] = @ - 1]
         /\ cacheValid' = [cacheValid EXCEPT ![tf] = TRUE]
         /\ waiting' = [waiting EXCEPT ![tf] = 0]
    /\ UNCHANGED <<timeframe, activeTab,
                   compareVars, renderVars, scoreVars, evalVars, batchVars, uiVars>>

\* the cached results of a timeframe age out
Expire ==
    /\ \E tf \in Timeframes :
         /\ cacheValid[tf]
         /\ cacheValid' = [cacheValid EXCEPT ![tf] = FALSE]
    /\ UNCHANGED <<timeframe, activeTab, computing, waiting,
                   compareVars, renderVars, scoreVars, evalVars, batchVars, uiVars>>

\* App.handleTimeframeChange (App.jsx:137)
handleTimeframeChange ==
    /\ \E tf \in Timeframes : timeframe' = tf
    /\ UNCHANGED <<activeTab, cacheValid, computing, waiting,
                   compareVars, renderVars, scoreVars, evalVars, batchVars, uiVars>>

\* Header: setActiveTab(tab.id)
setActiveTab ==
    /\ \E tab \in Tabs : activeTab' = tab
    /\ UNCHANGED <<timeframe, cacheValid, computing, waiting,
                   compareVars, renderVars, scoreVars, evalVars, batchVars, uiVars>>

InitCache ==
    /\ timeframe = "weekly"
    /\ activeTab = "dashboard"
    /\ cacheValid = [tf \in Timeframes |-> FALSE]
    /\ computing = [tf \in Timeframes |-> 0]
    /\ waiting = [tf \in Timeframes |-> 0]

IdleBatch ==
    /\ feed = [x \in BatchSymbols |-> [series |-> <<>>, slow |-> FALSE]]
    /\ status = [x \in BatchSymbols |-> "pending"]
    /\ errorCount = [x \in BatchSymbols |-> 0]
    /\ errorKind = [x \in BatchSymbols |-> "none"]
    /\ progress = [status |-> "idle", current |-> 0, total |-> NumBatch]
    /\ polled = <<>>
    /\ interval = FALSE

(***************************************************************************)
(* The API client (src/src/api/stockApi.js) and its demo mode.             *)
(***************************************************************************)

\* the functions that check response.ok, then data.success, and return data.data
StandardReads ==
    {"fetchTopPerformers", "fetchRecommendations", "fetchAllStocks",
     "fetchStockDetails", "fetchMarketOverview", "fetchSectors",
     "fetchScreenedStocks", "fetchStockUniverse", "fetchWatchlist",
     "fetchPortfolio", "fetchPortfolioAnalytics", "fetchCompareStocks",
     "fetchCommodities", "fetchCommodity", "fetchMarketSummary", "fetchAlerts",
     "fetchAlertHistory", "fetchFundamentals", "fetchQuarterlyResults",
     "fetchBalanceSheet", "fetchPeerComparison", "fetchChartData"}

\* every exported function whose name starts with fetch
ReadFns == StandardReads \cup {"fetchProgress", "fetchCacheStatus", "fetchBacktestResults"}

ApiFunctions == ReadFns \cup {"saveRecommendationsSnapshot"}

\* mockData.js: the keys of MOCK_DATA, by the function that reads the dataset
MockFns ==
    {"fetchMarketOverview", "fetchTopPerformers", "fetchSectors",
     "fetchCommodities", "fetchRecommendations"}

\* what the back end (or the static host) answers: the HTTP status is OK or
\* not, the body's success flag is true or not
Responses == [ok : BOOLEAN, success : BOOLEAN]

\* stockApi.js:15  if (DEMO_MODE) return MOCK_DATA.topPerformers: the only
\* function that reads DEMO_MODE
ChecksDemo(fn) == fn = "fetchTopPerformers"

\* if (!response.ok) ...: return null, return {} or throw
OnNotOk(fn) ==
    CASE fn = "fetchProgress" -> "null"
      [] fn = "fetchCacheStatus" -> "empty"
      [] OTHER -> "throw"

\* if (!data.success) throw ...: absent from fetchProgress, fetchCacheStatus
\* and saveRecommendationsSnapshot
ChecksSuccess(fn) ==
    fn \notin {"fetchProgress", "fetchCacheStatus", "saveRecommendationsSnapshot"}

\* the value returned from an accepted response: data.data, {data: data.data,
\* stats: data.stats} or the whole body
OnAccepted(fn) ==
    CASE fn = "fetchBacktestResults" -> "wrapped"
      [] fn = "saveRecommendationsSnapshot" -> "body"
      [] OTHER -> "data"

Ended(fn, kind, requested, resp) ==
    [fn |-> fn, kind |-> kind, requested |-> requested, response |-> resp]

\* one call of fn, the back end answering resp if it is asked
ApiCall(fn, resp) ==
    IF ChecksDemo(fn) /\ demoMode
    THEN Ended(fn, "mock", FALSE, <<>>)
    ELSE IF ~resp.ok THEN Ended(fn, OnNotOk(fn), TRUE, <<resp>>)
    ELSE IF ChecksSuccess(fn) /\ ~resp.success THEN Ended(fn, "throw", TRUE, <<resp>>)
    ELSE Ended(fn, OnAccepted(fn), TRUE, <<resp>>)

\* a component's query calls a function of the client
CallApi ==
    /\ \E fn \in ApiFunctions, resp \in Responses :
         /\ apiReturn' = ApiCall(fn, resp)
         /\ backendHit' = (backendHit \/ apiReturn'.requested)
    /\ UNCHANGED <<demoMode, coreVars, searchVars, portfolioVars, tableVars, screenerVars, formVars>>

\* DEMO_MODE = import.meta.env.VITE_DEMO_MODE === 'true' || isDemoMode()
InitApi ==
    /\ demoMode \in BOOLEAN
    /\ backendHit = FALSE
    /\ apiReturn = Ended("none", "none", FALSE, <<>>)

IdleApi ==
    /\ demoMode = FALSE
    /\ backendHit = FALSE
    /\ apiReturn = Ended("none", "none", FALSE, <<>>)

(***************************************************************************)
(* SearchBar (src/src/components/SearchBar.jsx): the debounced search.     *)
(***************************************************************************)

\* Distinct non-empty texts the user may have in the search input.
NumQueries == 2

\* Search requests issued in one run.
MaxRequests == 2

\* Milliseconds by which the clock advances in one step.
TickMs == 50

\* SearchBar.jsx:42  setTimeout(..., 150)
DebounceMs == 150

\* the texts of the input; 0 is the empty string
Queries == 0..NumQueries

Min(a, b) == IF a < b THEN a ELSE b

\* useState([]): no results, from no request
NoResults == [q |-> 0, n |-> 0, id |-> 0]

SearchStepOf(kind, q) == [kind |-> kind, q |-> q]

\* a cleanup that leaves the pending timer running
ClearTimeoutMissing(ts) == ts

\* the effect's cleanup, return () => clearTimeout(timer): the timer of the
\* previous render is cancelled
ClearTimeout(ts) == {}

\* the debounce effect runs for a new query: cleanup, then setTimeout
DebounceEffect(q) ==
    /\ timers' = ClearTimeout(timers) \cup {[q |-> q, age |-> 0]}
    /\ stable' = 0
    /\ burst' = (burst \/ \E t \in timers : t.q # 0)

\* setQuery(q): the effect runs again only when the value changes
SetQuery(q) ==
    /\ query' = q
    /\ IF q # query THEN DebounceEffect(q) ELSE UNCHANGED <<timers, stable, burst>>

\* input onChange: setQuery(e.target.value)
TypeQuery ==
    /\ \E q \in Queries :
         /\ q # query
         /\ SetQuery(q)
         /\ searchStep' = SearchStepOf("type", q)
    /\ UNCHANGED <<results, isOpen, isLoading, inFlight, nextId, applied, issued,
                   coreVars, apiVars, portfolioVars, tableVars, screenerVars, formVars>>

\* time passes
Tick ==
    /\ stable < DebounceMs \/ \E t \in timers : t.age < DebounceMs
    /\ timers' = {[t EXCEPT !.age = Min(@ + TickMs, DebounceMs)] : t \in timers}
    /\ stable' = Min(stable + TickMs, DebounceMs)
    /\ searchStep' = SearchStepOf("tick", query)
    /\ UNCHANGED <<query, results, isOpen, isLoading, inFlight, nextId, applied,
                   issued, burst, coreVars, apiVars, portfolioVars, tableVars, screenerVars, formVars>>

\* searchStocks(searchQuery) up to its await: an empty query clears the
\* results and closes the dropdown, any other sends GET /api/search?q=...
searchStocks(q) ==
    IF q = 0
    THEN /\ results' = NoResults
         /\ isOpen' = FALSE
         /\ UNCHANGED <<isLoading, inFlight, nextId, issued>>
    ELSE /\ nextId <= MaxRequests
         /\ isLoading' = TRUE
         /\ inFlight' = inFlight \cup {[id |-> nextId, q |-> q]}
         /\ nextId' = nextId + 1
         /\ issued' = <<[q |-> q, query |-> query, stable |-> stable, burst |-> burst]>>
         /\ UNCHANGED <<results, isOpen>>

\* a timer set 150 ms ago calls searchStocks with the query of its render
TimerFires ==
    /\ \E t \in timers :
         /\ t.age >= DebounceMs
         /\ timers' = timers \ {t}
         /\ searchStocks(t.q)
         /\ searchStep' = SearchStepOf("fire", t.q)
    /\ burst' = FALSE
    /\ UNCHANGED <<query, applied, stable, coreVars, apiVars, portfolioVars, tableVars, screenerVars, formVars>>

\* searchStocks after its await: the response of one request arrives
\* (n results when data.success, nothing changed otherwise)
SearchResponds ==
    /\ \E r \in inFlight, success \in BOOLEAN, n \in 0..1 :
         /\ inFlight' = inFlight \ {r}
         /\ IF success
            THEN /\ results' = [q |-> r.q, n |-> n, id |-> r.id]
                 /\ isOpen' = (n > 0)
                 /\ applied' = applied \cup {r.id}
            ELSE UNCHANGED <<results, isOpen, applied>>
         /\ isLoading' = FALSE
         /\ searchStep' = SearchStepOf("respond", r.q)
    /\ UNCHANGED <<query, timers, nextId, stable, issued, burst, coreVars, apiVars, portfolioVars, tableVars, screenerVars, formVars>>

\* handleSelect(stock): a click on a result of the open dropdown
handleSelect ==
    /\ isOpen /\ results.n > 0
    /\ SetQuery(0)
    /\ isOpen' = FALSE
    /\ results' = NoResults
    /\ searchStep' = SearchStepOf("select", 0)
    /\ UNCHANGED <<isLoading, inFlight, nextId, applied, issued, coreVars, apiVars, portfolioVars, tableVars, screenerVars, formVars>>

\* clearSearch: the X button, rendered when query is not empty
clearSearch ==
    /\ query # 0
    /\ SetQuery(0)
    /\ results' = NoResults
    /\ isOpen' = FALSE
    /\ searchStep' = SearchStepOf("clear", 0)
    /\ UNCHANGED <<isLoading, inFlight, nextId, applied, issued, coreVars, apiVars, portfolioVars, tableVars, screenerVars, formVars>>

\* Escape, or a mouse press outside the input and the dropdown
CloseDropdown ==
    /\ isOpen
    /\ isOpen' = FALSE
    /\ searchStep' = SearchStepOf("close", query)
    /\ UNCHANGED <<query, results, isLoading, timers, inFlight, nextId, applied,
                   stable, issued, burst, coreVars, apiVars, portfolioVars, tableVars, screenerVars, formVars>>

\* input onFocus: results.length > 0 && setIsOpen(true)
FocusInput ==
    /\ results.n > 0 /\ ~isOpen
    /\ isOpen' = TRUE
    /\ searchStep' = SearchStepOf("focus", query)
    /\ UNCHANGED <<query, results, isLoading, timers, inFlight, nextId, applied,
                   stable, issued, burst, coreVars, apiVars, portfolioVars, tableVars, screenerVars, formVars>>

\* SearchBar mounted: the debounce effect has set its first timer
InitSearch ==
    /\ query = 0
    /\ results = NoResults
    /\ isOpen = FALSE
    /\ isLoading = FALSE
    /\ timers = {[q |-> 0, age |-> 0]}
    /\ inFlight = {}
    /\ nextId = 1
    /\ applied = {}
    /\ stable = 0
    /\ issued = <<>>
    /\ burst = FALSE
    /\ searchStep = SearchStepOf("mount", 0)

\* SearchBar not mounted
IdleSearch ==
    /\ query = 0
    /\ results = NoResults
    /\ isOpen = FALSE
    /\ isLoading = FALSE
    /\ timers = {}
    /\ inFlight = {}
    /\ nextId = 1
    /\ applied = {}
    /\ stable = 0
    /\ issued = <<>>
    /\ burst = FALSE
    /\ searchStep = SearchStepOf("none", 0)

(***************************************************************************)
(* Portfolio (src/src/components/Portfolio.jsx) and the portfolio query    *)
(* and mutations of App (src/unnamed/part_001, src/src/App.jsx).           *)
(***************************************************************************)

\* Symbols a portfolio may hold.
NumHoldings == 3

HoldingSymbols == 1..NumHoldings

\* GET /portfolio and GET /portfolio/analytics answer with the holdings stored
PortfolioOf(hs) == [holdings |-> hs, holdings_count |-> Cardinality(hs)]

\* Portfolio.jsx:24  enabled: (data?.holdings_count || 0) > 0
AnalyticsEnabled == portfolioData # <<>> /\ portfolioData[1].holdings_count > 0

\* Portfolio.jsx:164-165  hasHoldings
hasHoldings == portfolioData # <<>> /\ portfolioData[1].holdings_count > 0

\* Portfolio.jsx:373-380: the rows handed to DataTable,
\* analytics?.holdings || summary.holdings || [] (an empty array is truthy)
HoldingsTable ==
    IF ~hasHoldings THEN {}
    ELSE IF analytics # <<>> THEN analytics[1].holdings
    ELSE portfolioData[1].holdings

\* a mutation succeeded: onSuccess: () => refetchPortfolio()
MutationSucceeded(op, sym) ==
    /\ refetching' = TRUE
    /\ lastMutation' = [op |-> op, symbol |-> sym]
    /\ UNCHANGED <<portfolioData, analytics, coreVars, apiVars, searchVars, tableVars, screenerVars, formVars>>

\* onAdd -> addPortfolioMutation.mutate(data): POST /portfolio/add
AddHolding ==
    \E sym \in HoldingSymbols :
        /\ holdings' = holdings \cup {sym}
        /\ MutationSucceeded("add", sym)

\* onRemove -> removePortfolioMutation.mutate(symbol): POST /portfolio/remove
RemoveHolding ==
    \E sym \in HoldingsTable :
        /\ holdings' = holdings \ {sym}
        /\ MutationSucceeded("remove", sym)

\* onImport: importPortfolioCSV(file); if (result.success) refetchPortfolio()
ImportHoldings ==
    \E file \in SUBSET HoldingSymbols :
        /\ file # {}
        /\ holdings' = holdings \cup file
        /\ MutationSucceeded("import", 0)

\* the ['portfolio'] query resolves with what the back end stores
PortfolioFetched ==
    /\ refetching
    /\ portfolioData' = <<PortfolioOf(holdings)>>
    /\ refetching' = FALSE
    /\ UNCHANGED <<holdings, analytics, lastMutation, coreVars, apiVars, searchVars, tableVars, screenerVars, formVars>>

\* the ['portfolio-analytics'] query fetches: when first enabled, and later
\* only when its data is older than staleTime and the window regains focus
\* or Portfolio mounts again; nothing else refetches or invalidates it
AnalyticsFetched ==
    /\ AnalyticsEnabled
    /\ analytics' = <<PortfolioOf(holdings)>>
    /\ UNCHANGED <<holdings, portfolioData, refetching, lastMutation,
                   coreVars, apiVars, searchVars, tableVars, screenerVars, formVars>>

\* the portfolio tab has been opened: the first fetch is under way
InitPortfolio ==
    /\ holdings \in SUBSET HoldingSymbols
    /\ portfolioData = <<>>
    /\ analytics = <<>>
    /\ refetching = TRUE
    /\ lastMutation = [op |-> "none", symbol |-> 0]

\* the portfolio tab not opened
IdlePortfolio ==
    /\ holdings = {}
    /\ portfolioData = <<>>
    /\ analytics = <<>>
    /\ refetching = FALSE
    /\ lastMutation = [op |-> "none", symbol |-> 0]

(***************************************************************************)
(* DataTable (src/src/components/DataTable.jsx) with the column            *)
(* configurations Portfolio, Alerts and Recommendations pass to it.        *)
(***************************************************************************)

\* Rows a table's data may hold.
NumTableRows == 2

\* The pageSize prop, scaled to the rows.
PageSize == 1

\* a cell value: a number, a string (a sequence of characters) or null
Num(n) == [t |-> "num", n |-> n, s |-> <<>>]

Str(chars) == [t |-> "str", n |-> 0, s |-> chars]

Null == [t |-> "null", n |-> 0, s |-> <<>>]

\* the rows the back end may deliver; symbols and tags are upper case
TableRowPool ==
    << [symbol |-> Str(<<"A", "B">>), value |-> Num(2), tag |-> Str(<<"X">>)],
       [symbol |-> Str(<<"B">>), value |-> Num(12), tag |-> Str(<<"Y">>)],
       [symbol |-> Str(<<"A">>), value |-> Null, tag |-> Str(<<"X">>)],
       [symbol |-> Str(<<"B", "A">>), value |-> Num(1), tag |-> Str(<<"Y">>)] >>

TableRows == {TableRowPool[i] : i \in 1..Min(NumTableRows, Len(TableRowPool))}

\* every list of distinct rows
RECURSIVE ListsOver(_)
ListsOver(S) ==
    {<<>>} \cup UNION {{<<r>> \o l : l \in ListsOver(S \ {r})} : r \in S}

TableData == ListsOver(TableRows)

\* a column of a table: its key, whether it defines an accessor, its sortable
\* option (true, false or not given) and whether it is filterable
Column(key, accessor, sortable, filterable) ==
    [key |-> key, accessor |-> accessor, sortable |-> sortable,
     filterable |-> filterable]

\* Portfolio.jsx:27-117, DataTable.jsx:258-307 (Alerts.alertColumns),
\* Recommendations.jsx:20-120: the kinds of column each passes
TableColumns(owner) ==
    CASE owner = "Portfolio" ->
           << Column("symbol", TRUE, "undefined", TRUE),
              Column("value", TRUE, "true", FALSE),
              Column("tag", TRUE, "undefined", TRUE),
              Column("actions", FALSE, "false", FALSE) >>
      [] owner = "Alerts" ->
           << Column("symbol", TRUE, "undefined", FALSE),
              Column("value", TRUE, "true", FALSE),
              Column("tag", TRUE, "undefined", FALSE),
              Column("actions", FALSE, "undefined", FALSE) >>
      [] owner = "Recommendations" ->
           << Column("symbol", TRUE, "undefined", TRUE),
              Column("value", TRUE, "true", FALSE),
              Column("tag", TRUE, "undefined", TRUE) >>

Tables == {"Portfolio", "Alerts", "Recommendations"}

\* String.prototype.toLowerCase, character by character
ToLowerChar(c) ==
    CASE c = "A" -> "a"
      [] c = "B" -> "b"
      [] c = "X" -> "x"
      [] c = "Y" -> "y"
      [] c = "F" -> "f"
      [] c = "O" -> "o"
      [] c = "U" -> "u"
      [] c = "V" -> "v"
      [] OTHER -> c

ToLowerCase(chars) == [i \in DOMAIN chars |-> ToLowerChar(chars[i])]

DigitChars == <<"0", "1", "2", "3", "4", "5", "6", "7", "8", "9">>

\* Number.prototype.toString of a natural number below 100
NumToString(n) ==
    IF n < 10 THEN <<DigitChars[n + 1]>>
    ELSE <<DigitChars[(n \div 10) + 1], DigitChars[(n % 10) + 1]>>

\* value.toString() of a value that is not null
ValueToString(v) == IF v.t = "num" THEN NumToString(v.n) ELSE v.s

\* String.prototype.includes
Includes(chars, term) ==
    \E i \in 0..(Len(chars) - Len(term)) : SubSeq(chars, i + 1, i + Len(term)) = term

\* col.accessor(row): defined only when the column has an accessor
Accessor(col, row) == row[col.key]

\* columns.some(col => col.accessor(row)?.toString().toLowerCase().includes(term)):
\* the columns are tried in order up to the first match; calling the accessor
\* of a column that defines none throws a TypeError
RECURSIVE SomeColumn(_, _, _)
SomeColumn(cols, row, term) ==
    IF cols = <<>> THEN "false"
    ELSE IF ~Head(cols).accessor THEN "throw"
    ELSE LET v == Accessor(Head(cols), row)
         IN IF v.t # "null" /\ Includes(ToLowerCase(ValueToString(v)), term)
            THEN "true"
            ELSE SomeColumn(Tail(cols), row, term)

Processed(threw, rws) == [threw |-> threw, rows |-> rws]

\* result.filter(row => columns.some(...)) with term = searchTerm.toLowerCase()
RECURSIVE SearchRows(_, _, _)
SearchRows(rws, cols, term) ==
    IF rws = <<>> THEN Processed(FALSE, <<>>)
    ELSE LET hit == SomeColumn(cols, Head(rws), term)
             rest == SearchRows(Tail(rws), cols, term)
         IN IF hit = "throw" \/ rest.threw THEN Processed(TRUE, <<>>)
            ELSE IF hit = "true" THEN Processed(FALSE, <<Head(rws)>> \o rest.rows)
            ELSE rest

\* columns.find(c => c.key === key): <<>> when there is none
FindColumn(cols, key) ==
    IF \E i \in DOMAIN cols : cols[i].key = key
    THEN <<cols[CHOOSE i \in DOMAIN cols :
                   cols[i].key = key /\ \A j \in 1..(i - 1) : cols[j].key # key]>>
    ELSE <<>>

\* result.filter(row => column.accessor(row)?.toString() === value)
RECURSIVE FilterRows(_, _, _)
FilterRows(rws, col, value) ==
    IF rws = <<>> THEN <<>>
    ELSE LET v == Accessor(col, Head(rws))
             rest == FilterRows(Tail(rws), col, value)
         IN IF v.t # "null" /\ ValueToString(v) = value THEN <<Head(rws)>> \o rest ELSE rest

\* Object.entries(filters).forEach(...): the entries in insertion order, an
\* entry with an empty value or an unknown key filtering nothing
RECURSIVE ApplyFilters(_, _, _)
ApplyFilters(rws, fs, cols) ==
    IF fs = <<>> THEN rws
    ELSE LET f == Head(fs)
             col == FindColumn(cols, f.key)
         IN ApplyFilters(IF f.value # <<>> /\ col # <<>>
                         THEN FilterRows(rws, col[1], f.value) ELSE rws,
                         Tail(fs), cols)

\* String(aVal || ''): null, 0 and '' give the empty string
SortString(v) ==
    IF v.t = "null" \/ (v.t = "num" /\ v.n = 0) THEN <<>> ELSE ValueToString(v)

\* the place of a character in the collation order: digits before letters,
\* a letter's case set aside
CharRank(c) ==
    CASE c \in Range(DigitChars) -> CHOOSE i \in DOMAIN DigitChars : DigitChars[i] = c
      [] ToLowerChar(c) = "a" -> 11
      [] ToLowerChar(c) = "b" -> 12
      [] ToLowerChar(c) = "x" -> 13
      [] ToLowerChar(c) = "y" -> 14
      [] OTHER -> 15

\* a.localeCompare(b) as -1, 0 or 1
RECURSIVE LocaleCompare(_, _)
LocaleCompare(a, b) ==
    IF a = <<>> /\ b = <<>> THEN 0
    ELSE IF a = <<>> THEN -1
    ELSE IF b = <<>> THEN 1
    ELSE IF CharRank(Head(a)) < CharRank(Head(b)) THEN -1
    ELSE IF CharRank(Head(a)) > CharRank(Head(b)) THEN 1
    ELSE LocaleCompare(Tail(a), Tail(b))

\* the comparator of result.sort: numbers by difference, anything else as strings
SortCompare(a, b, col, direction) ==
    LET aVal == Accessor(col, a)
        bVal == Accessor(col, b)
    IN IF aVal.t = "num" /\ bVal.t = "num"
       THEN IF direction = "asc" THEN aVal.n - bVal.n ELSE bVal.n - aVal.n
       ELSE IF direction = "asc"
            THEN LocaleCompare(SortString(aVal), SortString(bVal))
            ELSE LocaleCompare(SortString(bVal), SortString(aVal))

\* Array.prototype.sort is stable: x goes before the first row that must
\* follow it
RECURSIVE InsertSorted(_, _, _, _)
InsertSorted(sorted, x, col, direction) ==
    IF sorted = <<>> THEN <<x>>
    ELSE IF SortCompare(Head(sorted), x, col, direction) > 0 THEN <<x>> \o sorted
    ELSE <<Head(sorted)>> \o InsertSorted(Tail(sorted), x, col, direction)

RECURSIVE SortRows(_, _, _)
SortRows(rws, col, direction) ==
    IF rws = <<>> THEN <<>>
    ELSE InsertSorted(SortRows(SubSeq(rws, 1, Len(rws) - 1), col, direction),
                      rws[Len(rws)], col, direction)

\* DataTable.processedData (DataTable.jsx:34-85): search, then the filters,
\* then the sort; the comparator runs only when two rows are left
ProcessData(rws, cols, term, fs, sc) ==
    LET searched == IF term # <<>> THEN SearchRows(rws, cols, ToLowerCase(term))
                    ELSE Processed(FALSE, rws)
        filtered == ApplyFilters(searched.rows, fs, cols)
        col == IF sc.key # "null" THEN FindColumn(cols, sc.key) ELSE <<>>
    IN IF searched.threw THEN searched
       ELSE IF col = <<>> THEN Processed(FALSE, filtered)
       ELSE IF ~col[1].accessor
            THEN IF Len(filtered) >= 2 THEN Processed(TRUE, <<>>)
                 ELSE Processed(FALSE, filtered)
       ELSE Processed(FALSE, SortRows(filtered, col[1], sc.direction))

columns == TableColumns(table)

processedData == ProcessData(tableData, columns, searchTerm, filters, sortConfig)

\* Math.ceil(processedData.length / pageSize)
totalPages == (Len(processedData.rows) + PageSize - 1) \div PageSize

\* processedData.slice((currentPage - 1) * pageSize, currentPage * pageSize)
paginatedData ==
    SubSeq(processedData.rows, (currentPage - 1) * PageSize + 1,
           Min(currentPage * PageSize, Len(processedData.rows)))

\* filterOptions[col.key]: the distinct non-empty texts of the column in data
FilterOptions(col) ==
    {ValueToString(Accessor(col, tableData[i])) : i \in
        {j \in DOMAIN tableData : Accessor(col, tableData[j]).t # "null"}} \ {<<>>}

\* hasActiveFilters
hasActiveFilters ==
    searchTerm # <<>> \/ \E i \in DOMAIN filters : filters[i].value # <<>>

\* the table is on screen: no render has thrown and data is not empty
\* (if (!data.length) return the empty message)
TableShown == ~processedData.threw /\ tableData # <<>>

\* the texts a user types into the search box
SearchTerms == {<<>>, <<"a">>, <<"B">>, <<"1">>, <<"x">>, <<"z">>}

\* search input onChange: setSearchTerm(e.target.value); setCurrentPage(1)
SearchEdit ==
    /\ TableShown
    /\ \E term \in SearchTerms :
         /\ term # searchTerm
         /\ searchTerm' = term
    /\ currentPage' = 1
    /\ UNCHANGED <<table, tableData, sortConfig, filters, showFilters,
                   coreVars, apiVars, searchVars, portfolioVars, screenerVars, formVars>>

\* the X of the search box: setSearchTerm('')
SearchClear ==
    /\ TableShown
    /\ searchTerm # <<>>
    /\ searchTerm' = <<>>
    /\ UNCHANGED <<table, tableData, sortConfig, filters, showFilters, currentPage,
                   coreVars, apiVars, searchVars, portfolioVars, screenerVars, formVars>>

\* the Filters button: setShowFilters(!showFilters)
ToggleFilters ==
    /\ TableShown
    /\ showFilters' = ~showFilters
    /\ UNCHANGED <<table, tableData, sortConfig, filters, searchTerm, currentPage,
                   coreVars, apiVars, searchVars, portfolioVars, screenerVars, formVars>>

\* { ...prev, [key]: value }: a known key keeps its place, a new one goes last
PutFilter(fs, key, value) ==
    IF \E i \in DOMAIN fs : fs[i].key = key
    THEN [i \in DOMAIN fs |->
            IF fs[i].key = key THEN [key |-> key, value |-> value] ELSE fs[i]]
    ELSE Append(fs, [key |-> key, value |-> value])

\* a filter select onChange: setFilters(prev => ...); setCurrentPage(1)
SetFilter ==
    /\ TableShown
    /\ showFilters
    /\ \E i \in DOMAIN columns :
         /\ columns[i].filterable
         /\ \E value \in {<<>>} \cup FilterOptions(columns[i]) :
              filters' = PutFilter(filters, columns[i].key, value)
    /\ currentPage' = 1
    /\ UNCHANGED <<table, tableData, sortConfig, searchTerm, showFilters,
                   coreVars, apiVars, searchVars, portfolioVars, screenerVars, formVars>>

\* clearFilters (DataTable.jsx:101-104): the Clear All button
clearFilters ==
    /\ TableShown
    /\ hasActiveFilters
    /\ filters' = <<>>
    /\ searchTerm' = <<>>
    /\ UNCHANGED <<table, tableData, sortConfig, showFilters, currentPage,
                   coreVars, apiVars, searchVars, portfolioVars, screenerVars, formVars>>

\* a handleSort that flips the direction whatever the column was
handleSortToggle(key) ==
    [key |-> key,
     direction |-> IF sortConfig.direction = "desc" THEN "asc" ELSE "desc"]

\* handleSort(key) (DataTable.jsx:94-99): the next sortConfig
handleSort(key) ==
    [key |-> key,
     direction |-> IF sortConfig.key = key /\ sortConfig.direction = "desc"
                   THEN "asc" ELSE "desc"]

\* th onClick: col.sortable !== false && handleSort(col.key)
HeaderClick ==
    /\ TableShown
    /\ \E i \in DOMAIN columns :
         sortConfig' = IF columns[i].sortable # "false"
                       THEN handleSort(columns[i].key) ELSE sortConfig
    /\ UNCHANGED <<table, tableData, filters, searchTerm, showFilters, currentPage,
                   coreVars, apiVars, searchVars, portfolioVars, screenerVars, formVars>>

\* Previous: setCurrentPage(p => Math.max(1, p - 1)), disabled on page 1
PreviousPage ==
    /\ TableShown
    /\ totalPages > 1
    /\ currentPage # 1
    /\ currentPage' = IF currentPage - 1 > 1 THEN currentPage - 1 ELSE 1
    /\ UNCHANGED <<table, tableData, sortConfig, filters, searchTerm, showFilters,
                   coreVars, apiVars, searchVars, portfolioVars, screenerVars, formVars>>

\* Next: setCurrentPage(p => Math.min(totalPages, p + 1)), disabled on the last
NextPage ==
    /\ TableShown
    /\ totalPages > 1
    /\ currentPage # totalPages
    /\ currentPage' = Min(totalPages, currentPage + 1)
    /\ UNCHANGED <<table, tableData, sortConfig, filters, searchTerm, showFilters,
                   coreVars, apiVars, searchVars, portfolioVars, screenerVars, formVars>>

\* the parent's query is refetched: a new data prop, the table's state kept
DataChange ==
    /\ ~processedData.threw
    /\ \E d \in TableData :
         /\ d # tableData
         /\ tableData' = d
    /\ UNCHANGED <<table, sortConfig, filters, searchTerm, showFilters, currentPage,
                   coreVars, apiVars, searchVars, portfolioVars, screenerVars, formVars>>

\* a table is mounted with its first data
InitTable ==
    /\ table \in Tables
    /\ tableData \in TableData
    /\ sortConfig = [key |-> "null", direction |-> "desc"]
    /\ filters = <<>>
    /\ searchTerm = <<>>
    /\ showFilters = FALSE
    /\ currentPage = 1

\* no table mounted
IdleTable ==
    /\ table = "Recommendations"
    /\ tableData = <<>>
    /\ sortConfig = [key |-> "null", direction |-> "desc"]
    /\ filters = <<>>
    /\ searchTerm = <<>>
    /\ showFilters = FALSE
    /\ currentPage = 1

\* ---------------------------------------------------------------------------
\* StockScreener.jsx: the screener's filters and its list
\* ---------------------------------------------------------------------------

\* Stocks the screener's stocks prop may hold.
NumStocks == 3

\* (a.fundamentals?.pe_ratio || 999): the sort key of a stock without P/E
MissingPE == 999

Undervalued == Str(<<"U", "n", "d", "e", "r", "v", "a", "l", "u", "e", "d">>)

Overvalued == Str(<<"O", "v", "e", "r", "v", "a", "l", "u", "e", "d">>)

FairlyValued == Str(<<"F", "a", "i", "r", "l", "y", " ", "V", "a", "l", "u", "e", "d">>)

\* the stocks the all-stocks query may deliver: with and without fundamentals,
\* valuation and valuation score, a P/E of 0 and one above 999
StockPool ==
    << [symbol |-> "A", sector |-> "IT", market_cap_category |-> "Large Cap",
        status |-> Undervalued, composite |-> 78, pe_ratio |-> Num(20),
        macd_signal |-> "Bullish", change_percent |-> 4, valuation |-> Num(70)],
       [symbol |-> "B", sector |-> "Banking", market_cap_category |-> "Mid Cap",
        status |-> Overvalued, composite |-> 40, pe_ratio |-> Null,
        macd_signal |-> "Bearish", change_percent |-> -1, valuation |-> Null],
       [symbol |-> "C", sector |-> "IT", market_cap_category |-> "Small Cap",
        status |-> FairlyValued, composite |-> 60, pe_ratio |-> Num(0),
        macd_signal |-> "Neutral", change_percent |-> 2, valuation |-> Num(50)],
       [symbol |-> "D", sector |-> "Energy", market_cap_category |-> "Large Cap",
        status |-> Null, composite |-> 60, pe_ratio |-> Num(1200),
        macd_signal |-> "Bullish", change_percent |-> 4, valuation |-> Num(0)] >>

\* the stocks of the pool picked by a set of indexes, in the pool's order
RECURSIVE PickStocks(_, _)
PickStocks(picked, i) ==
    IF i > Len(StockPool) THEN <<>>
    ELSE (IF i \in picked THEN <<StockPool[i]>> ELSE <<>>) \o PickStocks(picked, i + 1)

\* the lists the query may deliver: up to NumStocks distinct stocks of the
\* pool, in the pool's order or in the opposite order
StockLists ==
    {PickStocks(picked, 1) :
        picked \in {x \in SUBSET DOMAIN StockPool : Cardinality(x) <= NumStocks}}
    \cup
    {Reverse(PickStocks(picked, 1)) :
        picked \in {x \in SUBSET DOMAIN StockPool : Cardinality(x) <= NumStocks}}

\* useState({ sector: 'all', ..., sortBy: 'score' })
DefaultFilters ==
    [sector |-> "all", marketCap |-> "all", valuation |-> "all", minScore |-> 0,
     maxPE |-> 100, macdSignal |-> "all", sortBy |-> "score"]

\* a number that may be missing, used as a condition: neither missing nor 0
IsTruthy(v) == v.t = "num" /\ v.n # 0

\* (v || dflt) of a number that may be missing
OrElse(v, dflt) == IF IsTruthy(v) THEN v.n ELSE dflt

\* stock.valuation?.status?.toLowerCase() || ''
StatusLower(stock) ==
    IF stock.status.t = "str" THEN ToLowerCase(stock.status.s) ELSE <<>>

\* the substring each Valuation option looks for
ValuationTerm(option) ==
    CASE option = "undervalued" -> <<"u", "n", "d", "e", "r", "v", "a", "l", "u", "e", "d">>
      [] option = "overvalued" -> <<"o", "v", "e", "r", "v", "a", "l", "u", "e", "d">>
      [] option = "fair" -> <<"f", "a", "i", "r">>

\* if (filters.valuation !== 'all') { ... !status.includes(...) return false }
PassesValuation(stock, option) ==
    option = "all" \/ Includes(StatusLower(stock), ValuationTerm(option))

\* the PE filter that also drops the stocks without P/E
PassesMaxPEStrict(stock, maxPE) ==
    stock.pe_ratio.t = "num" /\ stock.pe_ratio.n <= maxPE

\* if (stock.fundamentals?.pe_ratio && pe_ratio > filters.maxPE) return false
PassesMaxPE(stock, maxPE) ==
    ~(IsTruthy(stock.pe_ratio) /\ stock.pe_ratio.n > maxPE)

\* the callback of stocks.filter
StockFilter(stock, f) ==
    /\ ~(f.sector # "all" /\ stock.sector # f.sector)
    /\ ~(f.marketCap # "all" /\ stock.market_cap_category # f.marketCap)
    /\ PassesValuation(stock, f.valuation)
    /\ ~(stock.composite < f.minScore)
    /\ PassesMaxPE(stock, f.maxPE)
    /\ ~(f.macdSignal # "all" /\ stock.macd_signal # f.macdSignal)

\* the comparator of .sort: negative when a comes first
StockCompare(a, b, sortBy) ==
    CASE sortBy = "score" -> b.composite - a.composite
      [] sortBy = "pe" -> OrElse(a.pe_ratio, MissingPE) - OrElse(b.pe_ratio, MissingPE)
      [] sortBy = "change" -> b.change_percent - a.change_percent
      [] sortBy = "valuation" -> OrElse(b.valuation, 0) - OrElse(a.valuation, 0)
      [] OTHER -> 0

\* Array.prototype.sort is stable: x goes behind the entries it does not precede
RECURSIVE StockInsert(_, _, _)
StockInsert(sorted, x, sortBy) ==
    IF sorted = <<>> THEN <<x>>
    ELSE IF StockCompare(x, sorted[Len(sorted)], sortBy) < 0
         THEN Append(StockInsert(SubSeq(sorted, 1, Len(sorted) - 1), x, sortBy),
                     sorted[Len(sorted)])
         ELSE Append(sorted, x)

RECURSIVE StockSort(_, _)
StockSort(list, sortBy) ==
    IF list = <<>> THEN <<>>
    ELSE StockInsert(StockSort(SubSeq(list, 1, Len(list) - 1), sortBy),
                     list[Len(list)], sortBy)

\* useMemo: if (!stocks) return []; return stocks.filter(...).sort(...)
FilteredStocks(defined, list, f) ==
    IF ~defined THEN <<>>
    ELSE StockSort(SelectSeq(list, LAMBDA stock : StockFilter(stock, f)), f.sortBy)

filteredStocks == FilteredStocks(stocksDefined, stocks, screenerFilters)

\* stocks?.length || 0
StockCount == IF stocksDefined THEN Len(stocks) ELSE 0

\* useMemo: the sectors of the stocks, the options of the Sector select
sectors == IF stocksDefined THEN {stocks[i].sector : i \in DOMAIN stocks} ELSE {}

MarketCapOptions == {"all", "Large Cap", "Mid Cap", "Small Cap"}

ValuationOptions == {"all", "undervalued", "fair", "overvalued"}

MacdOptions == {"all", "Bullish", "Bearish"}

SortOptions == {"score", "pe", "change", "valuation"}

\* the numbers typed into Min Score and Max PE
MinScoreInputs == {0, 60}

MaxPEInputs == {-1, 20, 100}

SetSector ==
    /\ \E v \in {"all"} \cup sectors :
        screenerFilters' = [screenerFilters EXCEPT !.sector = v]
    /\ UNCHANGED <<stocks, stocksDefined, coreVars, apiVars, searchVars,
                   portfolioVars, tableVars, formVars>>

SetMarketCap ==
    /\ \E v \in MarketCapOptions :
        screenerFilters' = [screenerFilters EXCEPT !.marketCap = v]
    /\ UNCHANGED <<stocks, stocksDefined, coreVars, apiVars, searchVars,
                   portfolioVars, tableVars, formVars>>

SetValuation ==
    /\ \E v \in ValuationOptions :
        screenerFilters' = [screenerFilters EXCEPT !.valuation = v]
    /\ UNCHANGED <<stocks, stocksDefined, coreVars, apiVars, searchVars,
                   portfolioVars, tableVars, formVars>>

SetMinScore ==
    /\ \E v \in MinScoreInputs :
        screenerFilters' = [screenerFilters EXCEPT !.minScore = v]
    /\ UNCHANGED <<stocks, stocksDefined, coreVars, apiVars, searchVars,
                   portfolioVars, tableVars, formVars>>

SetMaxPE ==
    /\ \E v \in MaxPEInputs :
        screenerFilters' = [screenerFilters EXCEPT !.maxPE = v]
    /\ UNCHANGED <<stocks, stocksDefined, coreVars, apiVars, searchVars,
                   portfolioVars, tableVars, formVars>>

SetMacdSignal ==
    /\ \E v \in MacdOptions :
        screenerFilters' = [screenerFilters EXCEPT !.macdSignal = v]
    /\ UNCHANGED <<stocks, stocksDefined, coreVars, apiVars, searchVars,
                   portfolioVars, tableVars, formVars>>

SetSortBy ==
    /\ \E v \in SortOptions :
        screenerFilters' = [screenerFilters EXCEPT !.sortBy = v]
    /\ UNCHANGED <<stocks, stocksDefined, coreVars, apiVars, searchVars,
                   portfolioVars, tableVars, formVars>>

\* the all-stocks query delivers data: the stocks prop changes, the filters stay
StocksChange ==
    /\ \E l \in StockLists : stocks' = l
    /\ stocksDefined' = TRUE
    /\ UNCHANGED <<screenerFilters, coreVars, apiVars, searchVars, portfolioVars,
                   tableVars, formVars>>

\* the screener mounted before the query has data
InitScreener ==
    /\ stocks = <<>>
    /\ stocksDefined = FALSE
    /\ screenerFilters = DefaultFilters

IdleScreener == InitScreener

NextScreener ==
    \/ SetSector
    \/ SetMarketCap
    \/ SetValuation
    \/ SetMinScore
    \/ SetMaxPE
    \/ SetMacdSignal
    \/ SetSortBy
    \/ StocksChange

\* ---------------------------------------------------------------------------
\* The create/add forms of Alerts, Portfolio and Watchlist
\* ---------------------------------------------------------------------------

\* Distinct symbols a user may type into a form.
NumFormSymbols == 1

FormOwners == {"Alerts", "Portfolio", "Watchlist"}

\* the state outside the forms
restVars == <<coreVars, apiVars, searchVars, portfolioVars, tableVars, screenerVars>>

\* what may be typed into a text input: nothing, blanks only, a symbol in
\* either case, with or without surrounding blanks
FormTexts == {raw \in RawTexts : raw.sym <= NumFormSymbols}

\* ''
EmptyText == [sym |-> 0, lower |-> FALSE, padded |-> FALSE]

\* a string used as a condition: every string but '' is truthy
NonEmpty(text) == text.sym # 0 \/ text.padded

\* the value parseFloat gives for a text that is not a number
NaN == [t |-> "nan", n |-> 0, s |-> <<>>]

\* e.target.value of a number input: empty (also after deleting), -1, 0, 2
NumberTexts == {<<>>, <<"-", "1">>, <<"0">>, <<"2">>}

IsDigit(c) == \E d \in DOMAIN DigitChars : DigitChars[d] = c

DigitValue(c) == CHOOSE d \in 0..9 : DigitChars[d + 1] = c

RECURSIVE DigitsValue(_)
DigitsValue(chars) ==
    IF chars = <<>> THEN 0
    ELSE 10 * DigitsValue(SubSeq(chars, 1, Len(chars) - 1)) + DigitValue(chars[Len(chars)])

\* parseFloat(e.target.value) of an optional sign and digits; NaN otherwise
ParseFloat(chars) ==
    LET negative == chars # <<>> /\ chars[1] = "-"
        digits == IF negative THEN Tail(chars) ELSE chars
    IN IF digits # <<>> /\ \A i \in DOMAIN digits : IsDigit(digits[i])
       THEN Num(IF negative THEN 0 - DigitsValue(digits) ELSE DigitsValue(digits))
       ELSE NaN

\* a test that lets NaN through: !(value <= 0)
NotAtMostZero(v) == ~(v.t = "str" \/ (v.t = "num" /\ v.n <= 0))

\* value > 0: '' converts to 0, every comparison with NaN is false
GreaterThanZero(v) == v.t = "num" /\ v.n > 0

ConditionOptions == {"above", "below"}

NoteTexts == {EmptyText, [sym |-> 1, lower |-> TRUE, padded |-> FALSE]}

\* useState({ symbol: '', targetPrice: '', condition: 'above', notes: '' })
InitialAlertForm ==
    [symbol |-> EmptyText, targetPrice |-> Str(<<>>), condition |-> "above",
     notes |-> EmptyText]

\* useState({ symbol: '', quantity: '', price: '' })
InitialHoldingForm ==
    [symbol |-> EmptyText, quantity |-> Str(<<>>), price |-> Str(<<>>)]

NoStep == [kind |-> "none", invoked |-> FALSE, arg |-> <<>>, before |-> <<>>]

EditStep == [kind |-> "edit", invoked |-> FALSE, arg |-> <<>>, before |-> <<>>]

\* a submit: whether the callback was called, with what, and the form before it
SubmitStep(invoked, arg, data, shown) ==
    [kind |-> "submit", invoked |-> invoked, arg |-> arg,
     before |-> [data |-> data, shown |-> shown]]

\* Alerts: the New Alert button
ToggleCreateForm ==
    /\ formOwner = "Alerts"
    /\ showCreateForm' = ~showCreateForm
    /\ formStep' = EditStep
    /\ UNCHANGED <<formOwner, alertFormData, holdingFormData, showHoldingForm,
                   addSymbol, showWatchForm, restVars>>

EditAlertSymbol ==
    /\ formOwner = "Alerts"
    /\ showCreateForm
    /\ \E typed \in FormTexts :
        alertFormData' = [alertFormData EXCEPT !.symbol = ToUpperCase(typed)]
    /\ formStep' = EditStep
    /\ UNCHANGED <<formOwner, showCreateForm, holdingFormData, showHoldingForm,
                   addSymbol, showWatchForm, restVars>>

EditTargetPrice ==
    /\ formOwner = "Alerts"
    /\ showCreateForm
    /\ \E typed \in NumberTexts :
        alertFormData' = [alertFormData EXCEPT !.targetPrice = ParseFloat(typed)]
    /\ formStep' = EditStep
    /\ UNCHANGED <<formOwner, showCreateForm, holdingFormData, showHoldingForm,
                   addSymbol, showWatchForm, restVars>>

SelectCondition ==
    /\ formOwner = "Alerts"
    /\ showCreateForm
    /\ \E option \in ConditionOptions :
        alertFormData' = [alertFormData EXCEPT !.condition = option]
    /\ formStep' = EditStep
    /\ UNCHANGED <<formOwner, showCreateForm, holdingFormData, showHoldingForm,
                   addSymbol, showWatchForm, restVars>>

EditNotes ==
    /\ formOwner = "Alerts"
    /\ showCreateForm
    /\ \E typed \in NoteTexts :
        alertFormData' = [alertFormData EXCEPT !.notes = typed]
    /\ formStep' = EditStep
    /\ UNCHANGED <<formOwner, showCreateForm, holdingFormData, showHoldingForm,
                   addSymbol, showWatchForm, restVars>>

\* Alerts.handleCreate, the Create button
handleCreate ==
    /\ formOwner = "Alerts"
    /\ showCreateForm
    /\ IF NonEmpty(alertFormData.symbol) /\ GreaterThanZero(alertFormData.targetPrice)
       THEN /\ formStep' = SubmitStep(TRUE, alertFormData, alertFormData, showCreateForm)
            /\ alertFormData' = InitialAlertForm
            /\ showCreateForm' = FALSE
       ELSE /\ formStep' = SubmitStep(FALSE, <<>>, alertFormData, showCreateForm)
            /\ UNCHANGED <<alertFormData, showCreateForm>>
    /\ UNCHANGED <<formOwner, holdingFormData, showHoldingForm, addSymbol,
                   showWatchForm, restVars>>

CancelCreate ==
    /\ formOwner = "Alerts"
    /\ showCreateForm
    /\ showCreateForm' = FALSE
    /\ formStep' = EditStep
    /\ UNCHANGED <<formOwner, alertFormData, holdingFormData, showHoldingForm,
                   addSymbol, showWatchForm, restVars>>

\* Portfolio: the Add Holding button
ToggleHoldingForm ==
    /\ formOwner = "Portfolio"
    /\ showHoldingForm' = ~showHoldingForm
    /\ formStep' = EditStep
    /\ UNCHANGED <<formOwner, alertFormData, showCreateForm, holdingFormData,
                   addSymbol, showWatchForm, restVars>>

EditHoldingSymbol ==
    /\ formOwner = "Portfolio"
    /\ showHoldingForm
    /\ \E typed \in FormTexts :
        holdingFormData' = [holdingFormData EXCEPT !.symbol = ToUpperCase(typed)]
    /\ formStep' = EditStep
    /\ UNCHANGED <<formOwner, alertFormData, showCreateForm, showHoldingForm,
                   addSymbol, showWatchForm, restVars>>

EditQuantity ==
    /\ formOwner = "Portfolio"
    /\ showHoldingForm
    /\ \E typed \in NumberTexts :
        holdingFormData' = [holdingFormData EXCEPT !.quantity = ParseFloat(typed)]
    /\ formStep' = EditStep
    /\ UNCHANGED <<formOwner, alertFormData, showCreateForm, showHoldingForm,
                   addSymbol, showWatchForm, restVars>>

EditPrice ==
    /\ formOwner = "Portfolio"
    /\ showHoldingForm
    /\ \E typed \in NumberTexts :
        holdingFormData' = [holdingFormData EXCEPT !.price = ParseFloat(typed)]
    /\ formStep' = EditStep
    /\ UNCHANGED <<formOwner, alertFormData, showCreateForm, showHoldingForm,
                   addSymbol, showWatchForm, restVars>>

\* Portfolio.handleAdd, the Add button
PortfolioHandleAdd ==
    /\ formOwner = "Portfolio"
    /\ showHoldingForm
    /\ IF /\ NonEmpty(holdingFormData.symbol)
          /\ GreaterThanZero(holdingFormData.quantity)
          /\ GreaterThanZero(holdingFormData.price)
       THEN /\ formStep' = SubmitStep(TRUE, holdingFormData, holdingFormData,
                                      showHoldingForm)
            /\ holdingFormData' = InitialHoldingForm
            /\ showHoldingForm' = FALSE
       ELSE /\ formStep' = SubmitStep(FALSE, <<>>, holdingFormData, showHoldingForm)
            /\ UNCHANGED <<holdingFormData, showHoldingForm>>
    /\ UNCHANGED <<formOwner, alertFormData, showCreateForm, addSymbol,
                   showWatchForm, restVars>>

CancelHolding ==
    /\ formOwner = "Portfolio"
    /\ showHoldingForm
    /\ showHoldingForm' = FALSE
    /\ formStep' = EditStep
    /\ UNCHANGED <<formOwner, alertFormData, showCreateForm, holdingFormData,
                   addSymbol, showWatchForm, restVars>>

\* Watchlist: the Add Stock button
ToggleWatchForm ==
    /\ formOwner = "Watchlist"
    /\ showWatchForm' = ~showWatchForm
    /\ formStep' = EditStep
    /\ UNCHANGED <<formOwner, alertFormData, showCreateForm, holdingFormData,
                   showHoldingForm, addSymbol, restVars>>

EditAddSymbol ==
    /\ formOwner = "Watchlist"
    /\ showWatchForm
    /\ \E typed \in FormTexts : addSymbol' = ToUpperCase(typed)
    /\ formStep' = EditStep
    /\ UNCHANGED <<formOwner, alertFormData, showCreateForm, holdingFormData,
                   showHoldingForm, showWatchForm, restVars>>

\* Watchlist.handleAdd
WatchlistHandleAdd ==
    IF Truthy(Trim(addSymbol))
    THEN /\ formStep' = SubmitStep(TRUE, ToUpperCase(Trim(addSymbol)), addSymbol,
                                   showWatchForm)
         /\ addSymbol' = EmptyText
         /\ showWatchForm' = FALSE
    ELSE /\ formStep' = SubmitStep(FALSE, <<>>, addSymbol, showWatchForm)
         /\ UNCHANGED <<addSymbol, showWatchForm>>

\* the Add button, disabled while the symbol is blank, and Enter in the input
SubmitWatch ==
    /\ formOwner = "Watchlist"
    /\ showWatchForm
    /\ \E by \in {"click", "enter"} :
        /\ by = "click" => Truthy(Trim(addSymbol))
        /\ WatchlistHandleAdd
    /\ UNCHANGED <<formOwner, alertFormData, showCreateForm, holdingFormData,
                   showHoldingForm, restVars>>

CancelWatch ==
    /\ formOwner = "Watchlist"
    /\ showWatchForm
    /\ showWatchForm' = FALSE
    /\ formStep' = EditStep
    /\ UNCHANGED <<formOwner, alertFormData, showCreateForm, holdingFormData,
                   showHoldingForm, addSymbol, restVars>>

\* the forms as mounted: empty and hidden
FormsFresh ==
    /\ alertFormData = InitialAlertForm
    /\ showCreateForm = FALSE
    /\ holdingFormData = InitialHoldingForm
    /\ showHoldingForm = FALSE
    /\ addSymbol = EmptyText
    /\ showWatchForm = FALSE
    /\ formStep = NoStep

InitForms ==
    /\ formOwner \in FormOwners
    /\ FormsFresh

IdleForms ==
    /\ formOwner = "Alerts"
    /\ FormsFresh

NextForms ==
    \/ ToggleCreateForm
    \/ EditAlertSymbol
    \/ EditTargetPrice
    \/ SelectCondition
    \/ EditNotes
    \/ handleCreate
    \/ CancelCreate
    \/ ToggleHoldingForm
    \/ EditHoldingSymbol
    \/ EditQuantity
    \/ EditPrice
    \/ PortfolioHandleAdd
    \/ CancelHolding
    \/ ToggleWatchForm
    \/ EditAddSymbol
    \/ SubmitWatch
    \/ CancelWatch

\* the pipeline and the first components at rest
IdleCore ==
    /\ InitCompare
    /\ InitRender
    /\ IdleScore
    /\ IdleEval
    /\ IdleBatch
    /\ InitCache

\* the API client and the other components at rest
IdleUi ==
    /\ IdleApi
    /\ IdleSearch
    /\ IdlePortfolio
    /\ IdleTable
    /\ IdleScreener
    /\ IdleForms

\* the application after load: nothing compared, nothing rendered, no
\* evaluation requested
Init ==
    /\ InitCompare
    /\ InitRender
    /\ IdleScore
    /\ IdleEval
    /\ IdleBatch
    /\ InitCache
    /\ IdleUi

NextCompare ==
    \/ CompareAdd
    \/ CompareRemove

SpecCompare == Init /\ [][NextCompare]_vars

\* C10: after any sequence of handleAddCompare / handleRemoveCompare calls the
\* comparison holds at most 5 symbols and no symbol twice; an add of a symbol
\* already present, or an add when 5 are present, leaves the list unchanged.
C10_CompareAtMostFive ==
    /\ [](Len(compareSymbols) <= 5 /\ NoDup(compareSymbols))
    /\ [][(lastCall'.op = "add"
            /\ (lastCall'.symbol \in Range(compareSymbols) \/ Len(compareSymbols) = 5))
          => compareSymbols' = compareSymbols]_vars

\* five symbols are compared and a sixth add has just been refused
C10_Witness ==
    /\ Len(compareSymbols) = 5
    /\ lastCall.op = "add"
    /\ lastCall.symbol \notin Range(compareSymbols)

NextRender ==
    \/ ApiDeliver
    \/ Render
    \/ Refetch

SpecRender == Init /\ [][NextRender]_vars

\* the row at i is up to date on component c's screen
Rendered(c, i) ==
    /\ i \in DOMAIN rows
    /\ i \in DOMAIN display[c]
    /\ display[c][i] = RenderDcf(c, rows[i])

\* C5: a valuation that could not be computed is shown so that every consumer
\* tells it apart from a DCF computed as zero, and no number stands in its place.
C5_UnavailableIsDistinct ==
    \A c \in Components : \A i, j \in DOMAIN rows :
        (/\ Rendered(c, i) /\ Rendered(c, j)
         /\ ~rows[i].computed
         /\ rows[j].computed /\ rows[j].intrinsic_value = 0)
        => /\ display[c][i] # display[c][j]
           /\ display[c][i].num = <<>>

NextScore ==
    \/ ScoreStock
    \/ RecommendStock

InitScoring ==
    /\ InitCompare
    /\ InitRender
    /\ InitScore
    /\ IdleEval
    /\ IdleBatch
    /\ InitCache
    /\ IdleUi

SpecScore == InitScoring /\ [][NextScore]_vars

\* the recommendation thresholds are exposed to every whole score
WholeScores == 0..100

C3_CompositeInRange ==
    /\ SumOver(SubScoreNames, Weights) = 100
    /\ scores # <<>> =>
          /\ \A n \in SubScoreNames : scores[1].sub[n] \in 0..100
          /\ scores[1].composite \in 0..10000

\* a breakdown with an unavailable indicator, scored at the midpoint, and
\* every other indicator at its best
C3_Witness ==
    /\ scores # <<>>
    /\ \E n \in SubScoreNames :
          /\ scoreInput.sub[n] = NoIndicator
          /\ scores[1].sub[n] = NeutralScore
          /\ \A k \in SubScoreNames \ {n} : scores[1].sub[k] = 100
          /\ scores[1].composite = 10000 - Weights[n] * 50

NextEval == Evaluate

InitEvaluate ==
    /\ InitCompare
    /\ InitRender
    /\ IdleScore
    /\ InitEval
    /\ IdleBatch
    /\ InitCache
    /\ IdleUi

SpecEvaluate == InitEvaluate /\ [][NextEval]_vars

\* strictly increasing dates and positive prices, bar against bar
WellFormed(ps) ==
    /\ \A i \in DOMAIN ps : ps[i].close > 0
    /\ \A i, j \in DOMAIN ps : i < j => ps[i].date < ps[j].date

\* C6: a series with a decreasing or repeated date or a non-positive price
\* fails with DataQualityError and nothing is produced for it.
C6_MalformedFails ==
    (evaluation # <<>> /\ ~WellFormed(series)) =>
        /\ evaluation[1].kind = "DataQualityError"
        /\ evaluation[1].bars = 0

\* a series whose only fault is a repeated date was refused
C6_Witness ==
    /\ evaluation # <<>>
    /\ evaluation[1].kind = "DataQualityError"
    /\ Len(series) = 2
    /\ series[1].date = series[2].date
    /\ \A i \in DOMAIN series : series[i].close > 0

NextBatch ==
    \/ StartBatch
    \/ StartSymbol
    \/ FinishSymbol
    \/ TimeoutSymbol
    \/ PollProgress

InitBatching ==
    /\ InitCompare
    /\ InitRender
    /\ IdleScore
    /\ IdleEval
    /\ InitBatch
    /\ InitCache
    /\ IdleUi

SpecBatch == InitBatching /\ [][NextBatch]_vars

\* the workers keep running and the deadline timer keeps firing
FairSpecBatch == SpecBatch /\ WF_vars(ServerStep)

Fails(sym) == ~WellFormed(feed[sym].series) \/ feed[sym].slow

\* C4: when the batch is done every symbol that does not fail has a result
\* and every failing symbol has exactly one recorded error, wherever and
\* however many the failing symbols are.
C4_BatchIsolatesFailures ==
    progress.status = "done" =>
        \A sym \in BatchSymbols :
            IF Fails(sym)
            THEN status[sym] = "failed" /\ errorCount[sym] = 1
            ELSE status[sym] = "ok" /\ errorCount[sym] = 0

\* the batch [valid, malformed, valid] is done
C4_Witness ==
    /\ progress.status = "done"
    /\ ~Fails(1) /\ ~WellFormed(feed[2].series) /\ ~Fails(3)
    /\ status[1] = "ok" /\ status[2] = "failed" /\ status[3] = "ok"

NextCache ==
    \/ FetchQuery
    \/ TriggerPrefetch
    \/ ComputeDone
    \/ Expire
    \/ handleTimeframeChange
    \/ setActiveTab

SpecCache == Init /\ [][NextCache]_vars

NextApi == CallApi

InitApiClient == IdleCore /\ InitApi /\ IdleSearch /\ IdlePortfolio /\ IdleTable /\ IdleScreener /\ IdleForms

SpecApi == InitApiClient /\ [][NextApi]_vars

\* C11: in demo mode the client serves MOCK_DATA and sends no request to the
\* back end, for top performers and for every other dataset MOCK_DATA holds.
C11_DemoServesMock ==
    demoMode =>
        /\ ~backendHit
        /\ apiReturn.fn \in MockFns => apiReturn.kind = "mock"

\* C12: outside demo mode a read function throws on a non-OK status (but
\* fetchProgress returns null and fetchCacheStatus {}) and on a false success
\* flag, and returns the data of the response only otherwise.
C12_NoFailedPayload ==
    (~demoMode /\ apiReturn.fn \in ReadFns /\ apiReturn.requested) =>
        LET r == apiReturn.response[1]
        IN IF ~r.ok
           THEN apiReturn.kind =
                  (CASE apiReturn.fn = "fetchProgress" -> "null"
                     [] apiReturn.fn = "fetchCacheStatus" -> "empty"
                     [] OTHER -> "throw")
           ELSE IF ~r.success
           THEN apiReturn.kind = "throw"
           ELSE apiReturn.kind \in {"data", "wrapped"}

NextSearch ==
    \/ TypeQuery
    \/ Tick
    \/ TimerFires
    \/ SearchResponds
    \/ handleSelect
    \/ clearSearch
    \/ CloseDropdown
    \/ FocusInput

InitSearchBar == IdleCore /\ IdleApi /\ InitSearch /\ IdlePortfolio /\ IdleTable /\ IdleScreener /\ IdleForms

SpecSearch == InitSearchBar /\ [][NextSearch]_vars

\* C13: the results shown never come from a search older than one whose
\* response has already been shown: the response of the older of two requests
\* in flight never replaces the results of the newer.
C13_NewestSearchWins ==
    results.id # 0 => \A id \in applied : id <= results.id

\* C14: a request for q is issued only when the query has stayed equal to q
\* for 150 ms, so a burst of changes issues at most one request, for the last
\* value; a timer firing for the empty query issues no request, clears the
\* results and closes the dropdown.
C14_SearchDebounced ==
    /\ [](issued # <<>> =>
            /\ issued[1].q # 0
            /\ issued[1].q = issued[1].query
            /\ issued[1].stable >= 150)
    /\ [][nextId' # nextId => searchStep'.kind = "fire" /\ searchStep'.q = query']_vars
    /\ [][(searchStep'.kind = "fire" /\ searchStep'.q = 0) =>
            /\ results' = NoResults
            /\ ~isOpen'
            /\ inFlight' = inFlight /\ nextId' = nextId]_vars

\* the query changed again within 150 ms, the pending timer was cancelled and
\* the one request issued is for the last value
C14_Witness ==
    /\ issued # <<>>
    /\ issued[1].burst
    /\ nextId = 2
    /\ issued[1].q = query
    /\ searchStep.kind = "fire"

NextPortfolio ==
    \/ AddHolding
    \/ RemoveHolding
    \/ ImportHoldings
    \/ PortfolioFetched
    \/ AnalyticsFetched

InitPortfolioTab == IdleCore /\ IdleApi /\ IdleSearch /\ InitPortfolio /\ IdleTable /\ IdleScreener /\ IdleForms

SpecPortfolio == InitPortfolioTab /\ [][NextPortfolio]_vars

\* C15: once a holding was removed, added or imported and the portfolio query
\* has been refetched, the Holdings table lists exactly the holdings of the
\* refreshed portfolio.
C15_TableShowsRefreshedPortfolio ==
    (lastMutation.op # "none" /\ ~refetching /\ portfolioData # <<>>) =>
        HoldingsTable = portfolioData[1].holdings

NextTable ==
    \/ SearchEdit
    \/ SearchClear
    \/ ToggleFilters
    \/ SetFilter
    \/ clearFilters
    \/ HeaderClick
    \/ PreviousPage
    \/ NextPage
    \/ DataChange

InitDataTable == IdleCore /\ IdleApi /\ IdleSearch /\ IdlePortfolio /\ InitTable /\ IdleScreener /\ IdleForms

SpecTable == InitDataTable /\ [][NextTable]_vars

\* C16: searching and sorting never throw, whatever the search term, the
\* header clicked and the columns passed.
C16_ProcessingNeverThrows == ~processedData.threw

Max(a, b) == IF a > b THEN a ELSE b

\* C17: while the table is shown currentPage stays within
\* 1..max(1, totalPages), so the page shown is not empty when a row matches.
C17_PageWithinRange ==
    TableShown =>
        /\ currentPage \in 1..Max(1, totalPages)
        /\ processedData.rows # <<>> => paginatedData # <<>>

\* the row has the search term, letter case set aside, in one of its columns
HasTerm(row) ==
    \E i \in DOMAIN columns :
        /\ columns[i].accessor
        /\ row[columns[i].key].t # "null"
        /\ Includes(ToLowerCase(ValueToString(row[columns[i].key])),
                    ToLowerCase(searchTerm))

\* the row has the selected value in every column with an active filter
PassesFilters(row) ==
    \A i \in DOMAIN filters :
        (filters[i].value # <<>> /\ \E j \in DOMAIN columns : columns[j].key = filters[i].key)
        => /\ row[filters[i].key].t # "null"
           /\ ValueToString(row[filters[i].key]) = filters[i].value

\* C18: the processed rows are exactly the rows of data that have the search
\* term in some column and the selected value in every filtered column, each
\* once; the filters' order does not matter; without search, filter and sort
\* the rows are data in its order.
C18_FilteringExact ==
    /\ ~processedData.threw
    /\ Range(processedData.rows) =
         {r \in Range(tableData) : (searchTerm = <<>> \/ HasTerm(r)) /\ PassesFilters(r)}
    /\ NoDup(processedData.rows)
    /\ Len(processedData.rows) <= Len(tableData)
    /\ ProcessData(tableData, columns, searchTerm, Reverse(filters), sortConfig)
         = processedData
    /\ (searchTerm = <<>> /\ sortConfig.key = "null" /\ ~hasActiveFilters)
         => processedData.rows = tableData

\* C19: no column is sorted at first; every change of the sort state goes to a
\* header that is not sortable: false, descending unless that column was
\* already sorted descending, then ascending; a column with sortable: false
\* is never the sorted one.
C19_SortCycle ==
    /\ sortConfig.key = "null"
    /\ [][sortConfig' # sortConfig =>
            /\ \E i \in DOMAIN columns :
                 columns[i].key = sortConfig'.key /\ columns[i].sortable # "false"
            /\ sortConfig'.direction =
                 IF sortConfig.key = sortConfig'.key /\ sortConfig.direction = "desc"
                 THEN "asc" ELSE "desc"]_vars
    /\ [](\A i \in DOMAIN columns :
            columns[i].sortable = "false" => sortConfig.key # columns[i].key)

\* a header of the Portfolio table was clicked twice: ascending
C19_Witness ==
    /\ table = "Portfolio"
    /\ sortConfig = [key |-> "value", direction |-> "asc"]
    /\ Len(processedData.rows) >= 2

InitStockScreener ==
    IdleCore /\ IdleApi /\ IdleSearch /\ IdlePortfolio /\ IdleTable /\ InitScreener
    /\ IdleForms

SpecScreener == InitStockScreener /\ [][NextScreener]_vars

\* the statuses each Valuation option stands for
StatusesOf(option) ==
    CASE option = "undervalued" -> {Undervalued}
      [] option = "overvalued" -> {Overvalued}
      [] option = "fair" -> {FairlyValued}

\* a stock has a P/E ratio when the back end delivered one other than 0
HasPE(stock) == stock.pe_ratio.t = "num" /\ stock.pe_ratio.n # 0

Satisfies(stock) ==
    /\ screenerFilters.sector \in {"all", stock.sector}
    /\ screenerFilters.marketCap \in {"all", stock.market_cap_category}
    /\ screenerFilters.valuation = "all"
       \/ stock.status \in StatusesOf(screenerFilters.valuation)
    /\ stock.composite >= screenerFilters.minScore
    /\ HasPE(stock) => stock.pe_ratio.n <= screenerFilters.maxPE
    /\ screenerFilters.macdSignal \in {"all", stock.macd_signal}

PEKey(stock) == IF HasPE(stock) THEN stock.pe_ratio.n ELSE MissingPE

ValuationKey(stock) == IF stock.valuation.t = "num" THEN stock.valuation.n ELSE 0

InOrder(a, b) ==
    CASE screenerFilters.sortBy = "score" -> a.composite >= b.composite
      [] screenerFilters.sortBy = "pe" -> PEKey(a) <= PEKey(b)
      [] screenerFilters.sortBy = "change" -> a.change_percent >= b.change_percent
      [] screenerFilters.sortBy = "valuation" -> ValuationKey(a) >= ValuationKey(b)

ListedUnder(stock, f) ==
    \E j \in DOMAIN FilteredStocks(stocksDefined, stocks, f) :
        FilteredStocks(stocksDefined, stocks, f)[j] = stock

\* C20: the screener lists a stock exactly when it satisfies every active
\* filter, each stock once, a stock without P/E passing Max PE whatever its
\* value; the list is in the order of the selected sort key and never longer
\* than the stocks.
C20_ScreenerListsMatches ==
    /\ \A i \in 1..StockCount :
        Satisfies(stocks[i]) <=>
            Cardinality({j \in DOMAIN filteredStocks : filteredStocks[j] = stocks[i]}) = 1
    /\ \A j \in DOMAIN filteredStocks :
        \E i \in 1..StockCount : stocks[i] = filteredStocks[j]
    /\ \A i \in 1..StockCount :
        ~HasPE(stocks[i]) =>
            \A m \in MaxPEInputs :
                ListedUnder(stocks[i], [screenerFilters EXCEPT !.maxPE = m])
                    <=> ListedUnder(stocks[i], screenerFilters)
    /\ \A i, j \in DOMAIN filteredStocks :
        i < j => InOrder(filteredStocks[i], filteredStocks[j])
    /\ Len(filteredStocks) <= StockCount

\* three stocks, Max PE 20 and the sort by P/E: the stock above 20 is left
\* out, the stock without P/E is listed behind the stock with P/E 20
C20_Witness ==
    /\ stocksDefined
    /\ Len(stocks) = 3
    /\ screenerFilters.maxPE = 20
    /\ screenerFilters.sortBy = "pe"
    /\ Len(filteredStocks) = 2
    /\ filteredStocks[1].pe_ratio = Num(20)
    /\ filteredStocks[2].pe_ratio = Null
    /\ \E i \in DOMAIN stocks : stocks[i].pe_ratio = Num(1200)

InitFormsMounted ==
    IdleCore /\ IdleApi /\ IdleSearch /\ IdlePortfolio /\ IdleTable /\ IdleScreener
    /\ InitForms

SpecForms == InitFormsMounted /\ [][NextForms]_vars

\* a number greater than 0: neither '', nor NaN, nor 0 or less
IsPositiveNumber(v) == v.t = "num" /\ v.n > 0

\* the input the submitting component takes as valid
ValidInput(data) ==
    CASE formOwner = "Alerts" ->
            /\ data.symbol # EmptyText
            /\ IsPositiveNumber(data.targetPrice)
            /\ data.condition \in {"above", "below"}
      [] formOwner = "Portfolio" ->
            /\ data.symbol # EmptyText
            /\ IsPositiveNumber(data.quantity)
            /\ IsPositiveNumber(data.price)
      [] formOwner = "Watchlist" -> data.sym # 0

\* the fields and the visibility of the submitting component's form
FormNow ==
    CASE formOwner = "Alerts" -> [data |-> alertFormData, shown |-> showCreateForm]
      [] formOwner = "Portfolio" -> [data |-> holdingFormData, shown |-> showHoldingForm]
      [] formOwner = "Watchlist" -> [data |-> addSymbol, shown |-> showWatchForm]

\* C21: a submit invokes onCreate / onAdd only with valid input (non-empty
\* symbol, numbers > 0, condition above or below; for Watchlist a non-blank
\* symbol); a submit with invalid input, NaN included, invokes no callback and
\* leaves the form's fields and visibility as they were.
C21_CallbackOnlyOnValidInput ==
    formStep.kind = "submit" =>
        /\ formStep.invoked =>
            /\ ValidInput(formStep.before.data)
            /\ ValidInput(formStep.arg)
        /\ ~ValidInput(formStep.before.data) =>
            /\ ~formStep.invoked
            /\ FormNow = formStep.before

\* Create pressed in Alerts with a symbol and a target price emptied to NaN
C21_Witness ==
    /\ formOwner = "Alerts"
    /\ formStep.kind = "submit"
    /\ ~formStep.invoked
    /\ showCreateForm
    /\ alertFormData.symbol # EmptyText
    /\ alertFormData.targetPrice = NaN

====
